---- MODULE Spec2Model ----
(***************************************************************************)
(* Real-time event distribution of the cybersecurity threat detector:      *)
(* the detection engine's ingestion path and recent-threat buffer          *)
(* (backend/services/advanced/threatDetectionEngine.js, second class) and  *)
(* the server's Socket.io / raw WebSocket registries, periodic broadcasts  *)
(* and heartbeat (AdvancedCyberSecurityServer in                           *)
(* backend/agents/SystemTelemetryAgent.js).                                *)
(*                                                                         *)
(* Scores are integer thousandths (0.8 is 800).  The order in which one    *)
(* handler performs its sends and its buffer update is kept in the         *)
(* messages it leaves in sent: each message records whether its event      *)
(* was in recentThreats at the moment send was called.                     *)
(***************************************************************************)
EXTENDS Integers, Sequences, FiniteSets, TLC

\* ------------------------------------------------------------- bounds
MaxWs == 2          \* raw WebSocket connections of SpecWs
MaxDualWs == 1      \* raw WebSocket connections of Spec
MaxSock == 1        \* Socket.io connections of Spec
MaxEvents == 2      \* events appended in Spec
MaxWsEvents == 1    \* events appended in SpecWs
MaxPending == 1     \* ingestions suspended in a save at one time
MaxAppends == 3     \* ingestions of the buffer specification
PreFill == 199      \* events already buffered when the buffer specification starts
MaxBurst == 11      \* ingestions of the stream specification
MaxTopoEvents == 2  \* events of a buffer of the topology specification
MaxIndicators == 2  \* indicators of one kind in the severity specification
MaxAgentFailures == 2 \* refused attempts and dropped connections of the agent
MaxDispatch == 3    \* threat handlers run in the reducer specification
MaxAgentCreated == 4 \* WebSocket objects of the agent stop specification
MaxEngineStarts == 2 \* calls of the engine's start() that pass its test
MaxCampaignEvents == 3 \* events appended in the engine lifecycle specification
MaxClientFailures == 3 \* connection failures of the reconnection specification

\* -------------------------------------------------- program constants
BufferCap == 200    \* this.recentThreats.length > 200
StreamBatch == 10   \* getRecentThreats(10) of broadcastThreatStream
StatsLimit == 100   \* getRecentThreats(100) of calculateRealTimeStats
StatsWindow == 60   \* now.getTime() - 60 * 1000, in seconds
TopologyLimit == 50 \* getRecentThreats(50) of calculateNetworkTopology
ReconnectDelay == 5000 \* setTimeout(..., 5000) of reconnect, in ms
ThreatsCap == 1000  \* threats.slice(0, 999) and 1000 - payload.length
AlertsCap == 50     \* alerts.slice(0, 49)

WsIds == 1..MaxWs
SockIds == {100 + i : i \in 1..MaxSock}
ThreatLevels == {"LOW", "MEDIUM", "HIGH", "CRITICAL"}
SourceIPs == {"ipA", "ipB"}
Protocols == {"MIXED", "TCP"}
ThreatCategories == {"NETWORK_ANOMALY", "MALWARE"}

\* ---------------------------------------------------------- sequences
\* Array.prototype.slice(start) for any integer start: a negative start
\* counts from the end, and -0 is 0.
SliceFrom(s, start) ==
  LET n == Len(s)
      from == IF start < 0 THEN (IF n + start < 0 THEN 0 ELSE n + start)
              ELSE (IF start > n THEN n ELSE start)
  IN  SubSeq(s, from + 1, n)

Range(s) == {s[i] : i \in 1..Len(s)}

Reverse(s) == [i \in 1..Len(s) |-> s[Len(s) + 1 - i]]

Min(a, b) == IF a < b THEN a ELSE b

\* --------------------------------------------------- detection engine
\* extractThreatIndicators: the severities of the indicators, in the order
\* the code pushes them.
Repeat(x, n) == [i \in 1..n |-> x]

extractThreatIndicators(networkData) ==
  Repeat("MEDIUM", networkData.suspicious)
    \o Repeat("HIGH", networkData.errorStats)
    \o Repeat("MEDIUM", networkData.agentIndicators)
    \o (IF networkData.manyExternal THEN <<"MEDIUM">> ELSE <<>>)
    \o (IF networkData.manyInternal THEN <<"LOW">> ELSE <<>>)

IndicatorWeight(severity) ==
  CASE severity = "CRITICAL" -> 400
    [] severity = "HIGH" -> 300
    [] severity = "MEDIUM" -> 200
    [] severity = "LOW" -> 100
    [] OTHER -> 0

\* The running threatScore is a double.  A double is written <<k, d>>: k
\* is the nearest multiple of 0.001 in thousandths, d tells whether the
\* double lies above (1), at (0) or below (-1) the double of the literal
\* k/1000.  FloatAbove and FloatBelow list the additions <<k, d, w>> of
\* the literal w/1000 to <<k, d>> whose IEEE-754 sum (round to nearest,
\* ties to even) is above or below the literal (k + w)/1000; every other
\* addition the code can make with up to three indicators of a kind gives
\* the double of the literal.
FloatAbove ==
  {<<200, 0, 100>>, <<400, 0, 200>>, <<600, 1, 100>>, <<600, 1, 300>>,
   <<900, 1, 100>>, <<900, 1, 300>>, <<1100, 0, 100>>, <<1200, 1, 100>>,
   <<1200, 1, 200>>, <<1200, 1, 300>>, <<1300, 0, 100>>, <<1400, 1, 100>>,
   <<1500, 1, 100>>, <<1500, 1, 200>>, <<1600, 0, 100>>, <<1700, 1, 100>>,
   <<1700, 1, 200>>, <<1800, 0, 100>>, <<2100, 0, 200>>, <<2300, 1, 100>>}

FloatBelow ==
  {<<600, 0, 300>>, <<700, 0, 100>>, <<700, 0, 200>>, <<900, -1, 100>>,
   <<900, -1, 200>>, <<1100, -1, 200>>, <<1300, -1, 200>>,
   <<1400, 0, 200>>, <<1500, -1, 100>>, <<1500, -1, 200>>,
   <<1600, -1, 200>>, <<1700, -1, 100>>}

\* threatScore += w/1000
FloatAdd(x, w) ==
  <<x[1] + w,
    IF <<x[1], x[2], w>> \in FloatAbove THEN 1
    ELSE IF <<x[1], x[2], w>> \in FloatBelow THEN -1
    ELSE 0>>

\* x >= t/1000
FloatGeq(x, t) == x[1] > t \/ (x[1] = t /\ x[2] >= 0)

\* threatIndicators.forEach(...): the weights are added in order.
RECURSIVE SumWeights(_, _)
SumWeights(threatScore, indicators) ==
  IF indicators = <<>> THEN threatScore
  ELSE SumWeights(FloatAdd(threatScore, IndicatorWeight(Head(indicators))),
                  Tail(indicators))

\* A score that is not capped.
FloatMin1_NoCap(x) == x

\* Math.min(threatScore, 1.0)
FloatMin1(x) == IF FloatGeq(x, 1000) THEN <<1000, 0>> ELSE x

\* Math.round(threatScore * 1000) / 1000, in thousandths.
RoundThousandths(x) == x[1]

\* The shared utility, on a score in thousandths.
calculateThreatLevel(score) ==
  IF score >= 800 THEN "CRITICAL"
  ELSE IF score >= 600 THEN "HIGH"
  ELSE IF score >= 300 THEN "MEDIUM"
  ELSE "LOW"

\* analyzeRealNetworkThreat: the analysis result that becomes the event.
\* The level is taken from the running double, the stored score is the
\* double rounded to thousandths.  id is the identity of the object (the
\* number of the ingestion); _id is 0 while the object has no _id property.
analyzeRealNetworkThreat(networkData, threatIndicators, id) ==
  LET threatScore == FloatMin1(SumWeights(<<0, 0>>, threatIndicators))
      threatLevel == IF FloatGeq(threatScore, 800) THEN "CRITICAL"
                     ELSE IF FloatGeq(threatScore, 600) THEN "HIGH"
                     ELSE IF FloatGeq(threatScore, 300) THEN "MEDIUM"
                     ELSE "LOW"
  IN  [id |-> id,
       _id |-> 0,
       sourceIP |-> networkData.publicIP,
       destinationIP |-> "local",
       protocol |-> "MIXED",
       threatScore |-> RoundThousandths(threatScore),
       threatCategory |-> "NETWORK_ANOMALY",
       threatLevel |-> threatLevel]

\* getRecentThreats(limit): this.recentThreats.slice(-limit).
getRecentThreats(buffer, limit) ==
  IF Len(buffer) = 0 THEN <<>> ELSE SliceFrom(buffer, 0 - limit)

\* The buffer update without its shift: the buffer grows without bound.
AppendRecent_NoShift(buffer, event) == Append(buffer, event)

\* processRealTimeData's buffer update: push, then shift when over 200.
AppendRecent(buffer, event) ==
  LET pushed == Append(buffer, event)
  IN  IF Len(pushed) > BufferCap THEN Tail(pushed) ELSE pushed

\* ------------------------------------------------------------ filters
\* A filter object as a client sends it: keys holds the properties the
\* object has; a property it does not have keeps the default value below.
\* filterThreatsForClient reads the first four; categories is a property a
\* client may send that no line of the server reads.
FilterKeys ==
  {"threatLevels", "sourceIPs", "protocols", "minThreatScore", "categories"}

Has(filters, key) == key \in filters.keys

EmptyFilter ==
  [keys |-> {}, threatLevels |-> {}, sourceIPs |-> {}, protocols |-> {},
   minThreatScore |-> 0, categories |-> {}]

\* The callback of filterThreatsForClient: TRUE keeps the threat.
KeepThreat(threat, filters) ==
  IF Has(filters, "threatLevels") /\ Cardinality(filters.threatLevels) > 0
     /\ threat.threatLevel \notin filters.threatLevels
  THEN FALSE
  ELSE IF Has(filters, "sourceIPs") /\ Cardinality(filters.sourceIPs) > 0
          /\ threat.sourceIP \notin filters.sourceIPs
  THEN FALSE
  ELSE IF Has(filters, "protocols") /\ Cardinality(filters.protocols) > 0
          /\ threat.protocol \notin filters.protocols
  THEN FALSE
  ELSE IF Has(filters, "minThreatScore") /\ filters.minThreatScore # 0
          /\ threat.threatScore < filters.minThreatScore
  THEN FALSE
  ELSE TRUE

filterThreatsForClient(threats, filters) ==
  LET Keep(t) == KeepThreat(t, filters) IN SelectSeq(threats, Keep)

\* -------------------------------------------------------------- state
VARIABLES
  wsState,                \* raw WebSocket id -> "NONE" | "OPEN" | "CLOSING" |
                          \*   "TERMINATED" | "CLOSED"; readyState is CLOSING in
                          \*   "CLOSING" (the peer closes) and in "TERMINATED"
                          \*   (the heartbeat called ws.terminate())
  isAlive,                \* ws.isAlive
  awaitingPong,           \* history: a ping was sent and no pong came since
  threatSubscriptions,    \* Map ws.id -> filters
  networkTopologyClients, \* Set of ws ids and socket ids
  sockState,              \* Socket.io id -> "NONE" | "CONNECTED" | "DISCONNECTED"
  sockRooms,              \* Socket.io id -> rooms joined (the adapter's state)
  connectedClients,       \* Map socket.id -> client info
  recentThreats,          \* engine.recentThreats
  threatCount,            \* history: number of events ever appended
  base,                   \* history: number of events buffered at the start
  pendingSaves,           \* ingestions suspended in await threatData.save()
  owed,                   \* history: ws id -> <<e>>, the oldest event that
                          \*   was ingested while the connection was an open
                          \*   subscriber admitting it and that no send to
                          \*   the connection has carried yet; <<>> if none
  sent,                   \* the sends the last step attempted, in order
  op,                     \* the last step
  probe,                  \* the last call of a pure function and its result
  agent,                  \* the producer agent (HackathonNetworkAgent)
  client,                 \* the browser client (ThreatProvider)
  engine                  \* the engine's isRunning flag and interval timers

vars ==
  <<wsState, isAlive, awaitingPong, threatSubscriptions, networkTopologyClients,
    sockState, sockRooms, connectedClients, recentThreats, threatCount, base,
    pendingSaves, owed, sent, op, probe, agent, client, engine>>

wsVars == <<wsState, isAlive, awaitingPong>>
sockVars == <<sockState, sockRooms, connectedClients>>
engineVars == <<recentThreats, threatCount, base, pendingSaves, owed>>
serverVars ==
  <<wsVars, threatSubscriptions, networkTopologyClients, sockVars, engineVars>>
\* The processes at the other end of the connections, and the engine's
\* timers, which no handler of the server touches.
remoteVars == <<agent, client, engine>>

\* this.wss.clients: a socket stays in the set until its close event.
WssClients == {c \in WsIds : wsState[c] \in {"OPEN", "CLOSING", "TERMINATED"}}
\* A send loop without its readyState test: every socket of wss.clients.
IsOpen_AnyClient(c) == c \in WsIds /\ c \in WssClients

\* readyState === WebSocket.OPEN
IsOpen(c) == c \in WsIds /\ wsState[c] = "OPEN"

\* ----------------------------------------------------------- messages
\* One attempted send.  ok is FALSE when send threw; buffered tells whether
\* every event of data was in the recent-threat buffer when send was called.
Msg(tr, to, type, data, ok, buffer) ==
  [tr |-> tr, to |-> to, type |-> type, data |-> data, ok |-> ok,
   buffered |-> \A e \in Range(data) : e \in Range(buffer)]

RECURSIVE WsLoop(_, _, _, _, _, _, _)
\* clients.forEach(c => { if (c.readyState === OPEN) c.send(...) }) over the
\* ids from i on, in insertion order.  guarded: each send has its own
\* try/catch; otherwise the first throw leaves the loop.
WsLoop(i, targets, type, dataOf, failing, guarded, buffer) ==
  IF i > MaxWs THEN <<>>
  ELSE IF ~(i \in targets /\ IsOpen(i))
    THEN WsLoop(i + 1, targets, type, dataOf, failing, guarded, buffer)
  ELSE IF i \in failing
    THEN <<Msg("B", i, type, dataOf[i], FALSE, buffer)>>
           \o (IF guarded
               THEN WsLoop(i + 1, targets, type, dataOf, failing, guarded, buffer)
               ELSE <<>>)
  ELSE <<Msg("B", i, type, dataOf[i], TRUE, buffer)>>
         \o WsLoop(i + 1, targets, type, dataOf, failing, guarded, buffer)

RECURSIVE RoomLoop(_, _, _, _, _)
\* io.to(room).emit(type, data): every connected socket that joined room.
RoomLoop(members, room, type, data, buffer) ==
  IF members = {} THEN <<>>
  ELSE LET s == CHOOSE x \in members : \A y \in members : x <= y
       IN  <<Msg("A", s, type, data, TRUE, buffer)>>
             \o RoomLoop(members \ {s}, room, type, data, buffer)

RoomMembers(room) ==
  {s \in SockIds : sockState[s] = "CONNECTED" /\ room \in sockRooms[s]}

EmitToRoom(room, type, data, buffer) ==
  RoomLoop(RoomMembers(room), room, type, data, buffer)

SameData(data) == [c \in WsIds |-> data]

\* broadcastThreatUpdate (second class): one try around the three parts.
broadcastThreatUpdate(threatData, failing, buffer) ==
  EmitToRoom("threats", "threatUpdate", <<threatData>>, buffer)
    \o (IF threatData.threatLevel = "CRITICAL" \/ threatData.threatLevel = "HIGH"
        THEN EmitToRoom("threats", "criticalThreatAlert", <<threatData>>, buffer)
        ELSE <<>>)
    \o WsLoop(1, WssClients, "THREAT_UPDATE", SameData(<<threatData>>), failing,
              FALSE, buffer)

\* broadcastNetworkStatus: one try around both parts.
broadcastNetworkStatus(failing) ==
  EmitToRoom("network", "networkStatusUpdate", <<>>, <<>>)
    \o WsLoop(1, WssClients, "NETWORK_STATUS_UPDATE", SameData(<<>>), failing,
              FALSE, <<>>)

\* -------------------------------------------------------------- inputs
\* The filters a client of the broker specification may send.
ClientFilters ==
  { EmptyFilter,
    [EmptyFilter EXCEPT !.keys = {"threatLevels"},
                        !.threatLevels = {"HIGH", "CRITICAL"}],
    [EmptyFilter EXCEPT !.keys = {"categories"}, !.categories = {"MALWARE"}] }

NoData(ip) ==
  [publicIP |-> ip, suspicious |-> 0, errorStats |-> 0, agentIndicators |-> 0,
   manyExternal |-> FALSE, manyInternal |-> FALSE]

\* The network data a producer of the broker specification may send: no
\* indicator; one LOW indicator (score 0.1); score 0.2 (LOW); score 0.6
\* (HIGH); score 0.8 (CRITICAL).
Feeds ==
  { NoData("ipA"),
    [NoData("ipA") EXCEPT !.manyInternal = TRUE],
    [NoData("ipA") EXCEPT !.suspicious = 1],
    [NoData("ipB") EXCEPT !.errorStats = 2],
    [NoData("ipA") EXCEPT !.errorStats = 2, !.suspicious = 1] }

NoProbe == [fn |-> "none", arg |-> <<>>, out |-> <<>>]

\* ------------------------------------------------------ producer agent
\* The WebSocket objects the agent may create: the first one and three for
\* every failure (the error handler, the close handler and sendToBackend
\* may each schedule a retry).
AgentSockets == 1..(1 + 3 * MaxAgentFailures)

\* HackathonNetworkAgent after its constructor.  ws is 0 for null; sockets
\* holds the readyState of every WebSocket created, timers the delays of
\* the pending setTimeout calls, collecting tells that an interval
\* callback is suspended in await collectRealNetworkData(), failures counts
\* the refused attempts and dropped connections.
AgentConstructed ==
  [ws |-> 0, isRunning |-> FALSE, collectionInterval |-> FALSE,
   sockets |-> [k \in AgentSockets |-> "NONE"], created |-> 0,
   timers |-> <<>>, collecting |-> FALSE, failures |-> 0]

\* ------------------------------------------------------- browser client
\* initialState of the ThreatProvider reducer (the fields the model
\* reads), with the two transports not yet connected.
initialState ==
  [threats |-> <<>>, alerts |-> <<>>, totalThreats |-> 0, connected |-> FALSE,
   wsConnected |-> FALSE, connectionQuality |-> "good"]

\* state is the reducer state, socketConnected is socketRef.current.connected,
\* wsReadyState is wsRef.current.readyState, pingTime tells that a ping is
\* on its way, dispatches counts the threat handlers that have run.
ClientMounted ==
  [state |-> initialState, socketConnected |-> FALSE,
   wsReadyState |-> "CONNECTING", pingTime |-> FALSE, dispatches |-> 0]

\* ------------------------------------------------------ engine timers
\* The periodic timers start() creates.
EngineTimers == {"correlation", "baseline", "metrics", "broadcast"}

\* The engine after its constructor.  starting counts the calls of start()
\* suspended in their awaits, intervals the setInterval timers alive of
\* each kind, started the calls of start() that went past the isRunning
\* test, stopped tells that stop() was called and no start() went past the
\* test since.
EngineConstructed ==
  [isRunning |-> FALSE, starting |-> 0,
   intervals |-> [t \in EngineTimers |-> 0], started |-> 0,
   stopped |-> FALSE]

NoPeers ==
  /\ agent = AgentConstructed
  /\ client = ClientMounted
  /\ engine = EngineConstructed

\* ---------------------------------------------------------------- init
\* The registries after the constructors: no connection, nothing sent.
NoConnections ==
  /\ wsState = [c \in WsIds |-> "NONE"]
  /\ isAlive = [c \in WsIds |-> FALSE]
  /\ awaitingPong = [c \in WsIds |-> FALSE]
  /\ threatSubscriptions = [c \in {} |-> EmptyFilter]
  /\ networkTopologyClients = {}
  /\ sockState = [s \in SockIds |-> "NONE"]
  /\ sockRooms = [s \in SockIds |-> {}]
  /\ connectedClients = [s \in {} |-> EmptyFilter]
  /\ pendingSaves = 0
  /\ owed = [c \in WsIds |-> <<>>]
  /\ sent = <<>>
  /\ op = "init"

EmptyBuffer ==
  /\ recentThreats = <<>>
  /\ threatCount = 0
  /\ base = 0

\* The state after the constructors.
Init == NoConnections /\ EmptyBuffer /\ probe = NoProbe /\ NoPeers

\* ------------------------------------------------- raw WebSocket server
\* wss.on("connection"): ids are handed out in order of connection.
WsConnect(c) ==
  /\ wsState[c] = "NONE"
  /\ \A d \in WsIds : d < c => wsState[d] # "NONE"
  /\ wsState' = [wsState EXCEPT ![c] = "OPEN"]
  /\ isAlive' = [isAlive EXCEPT ![c] = TRUE]
  /\ awaitingPong' = [awaitingPong EXCEPT ![c] = FALSE]
  /\ op' = "WsConnect"
  /\ sent' = <<Msg("B", c, "connected", <<>>, TRUE, <<>>)>>
  /\ UNCHANGED <<threatSubscriptions, networkTopologyClients, sockVars,
                 engineVars, probe,
                 remoteVars>>

\* A pong handler that leaves ws.isAlive as the heartbeat set it.
WsPong_KeepsFlag(c) ==
  /\ wsState[c] = "OPEN"
  /\ awaitingPong' = [awaitingPong EXCEPT ![c] = FALSE]
  /\ op' = "WsPong"
  /\ sent' = <<>>
  /\ UNCHANGED <<wsState, isAlive, threatSubscriptions, networkTopologyClients,
                 sockVars, engineVars, probe,
                 remoteVars>>

\* ws.on("pong")
WsPong(c) ==
  /\ wsState[c] = "OPEN"
  /\ isAlive' = [isAlive EXCEPT ![c] = TRUE]
  /\ awaitingPong' = [awaitingPong EXCEPT ![c] = FALSE]
  /\ op' = "WsPong"
  /\ sent' = <<>>
  /\ UNCHANGED <<wsState, threatSubscriptions, networkTopologyClients, sockVars,
                 engineVars, probe,
                 remoteVars>>

\* The peer starts closing (or the network drops): readyState leaves OPEN,
\* the close event follows.
WsPeerClose(c) ==
  /\ wsState[c] = "OPEN"
  /\ wsState' = [wsState EXCEPT ![c] = "CLOSING"]
  /\ op' = "WsPeerClose"
  /\ sent' = <<>>
  /\ UNCHANGED <<isAlive, awaitingPong, threatSubscriptions,
                 networkTopologyClients, sockVars, engineVars, probe,
                 remoteVars>>

\* ws.on("close"): the socket leaves wss.clients and the handler runs.  The
\* socket object is dropped with its flags.
WsClose(c) ==
  /\ wsState[c] \in {"CLOSING", "TERMINATED"}
  /\ wsState' = [wsState EXCEPT ![c] = "CLOSED"]
  /\ isAlive' = [isAlive EXCEPT ![c] = FALSE]
  /\ awaitingPong' = [awaitingPong EXCEPT ![c] = FALSE]
  /\ threatSubscriptions' =
       [d \in DOMAIN threatSubscriptions \ {c} |-> threatSubscriptions[d]]
  /\ op' = "WsClose"
  /\ sent' = <<>>
  /\ UNCHANGED <<networkTopologyClients, sockVars, engineVars, probe,
                 remoteVars>>

\* The heartbeat interval of setupWebSocketServer.
HeartbeatState(c) ==
  IF c \notin WssClients THEN wsState[c]
  ELSE IF ~isAlive[c] THEN "TERMINATED"   \* ws.terminate()
  ELSE wsState[c]

Pinged == {c \in WssClients : isAlive[c]}

RECURSIVE PingLoop(_)
PingLoop(i) ==
  IF i > MaxWs THEN <<>>
  ELSE IF i \in Pinged
    THEN <<Msg("B", i, "ping", <<>>, TRUE, <<>>)>> \o PingLoop(i + 1)
  ELSE PingLoop(i + 1)

Heartbeat ==
  /\ wsState' = [c \in WsIds |-> HeartbeatState(c)]
  /\ isAlive' = [c \in WsIds |-> IF c \in Pinged THEN FALSE ELSE isAlive[c]]
  /\ awaitingPong' =
       [c \in WsIds |-> IF c \in Pinged THEN TRUE ELSE awaitingPong[c]]
  /\ op' = "Heartbeat"
  /\ sent' = PingLoop(1)
  /\ UNCHANGED <<threatSubscriptions, networkTopologyClients, sockVars,
                 engineVars, probe,
                 remoteVars>>

\* The name of a SUBSCRIBE_THREAT_STREAM step: whether the connection had no
\* subscription, the same filters, or other filters before the message.
SubscribeOp(c, filters) ==
  IF c \notin DOMAIN threatSubscriptions THEN "SubscribeThreatStream"
  ELSE IF threatSubscriptions[c] = filters THEN "RepeatThreatStream"
  ELSE "ReplaceThreatStream"

\* A subscribe handler that keeps the filters of an existing subscription.
handleThreatStreamSubscription_KeepsFirst(c, filters) ==
  /\ wsState[c] = "OPEN"
  /\ threatSubscriptions' =
       [d \in DOMAIN threatSubscriptions \cup {c} |->
          IF d \in DOMAIN threatSubscriptions THEN threatSubscriptions[d]
          ELSE filters]
  /\ op' = SubscribeOp(c, filters)
  /\ sent' = <<Msg("B", c, "SUBSCRIPTION_CONFIRMED", <<filters>>, TRUE, <<>>)>>
  /\ UNCHANGED <<wsVars, networkTopologyClients, sockVars, engineVars, probe,
                 remoteVars>>

\* handleThreatStreamSubscription: the confirmation echoes the filters.
handleThreatStreamSubscription(c, filters) ==
  /\ wsState[c] = "OPEN"
  /\ threatSubscriptions' =
       [d \in DOMAIN threatSubscriptions \cup {c} |->
          IF d = c THEN filters ELSE threatSubscriptions[d]]
  /\ op' = SubscribeOp(c, filters)
  /\ sent' = <<Msg("B", c, "SUBSCRIPTION_CONFIRMED", <<filters>>, TRUE, <<>>)>>
  /\ UNCHANGED <<wsVars, networkTopologyClients, sockVars, engineVars, probe,
                 remoteVars>>

\* handleNetworkTopologySubscription
handleNetworkTopologySubscription(c) ==
  /\ wsState[c] = "OPEN"
  /\ networkTopologyClients' = networkTopologyClients \cup {c}
  /\ op' = "SubscribeNetworkTopology"
  /\ sent' = <<Msg("B", c, "SUBSCRIPTION_CONFIRMED", <<>>, TRUE, <<>>)>>
  /\ UNCHANGED <<wsVars, threatSubscriptions, sockVars, engineVars, probe,
                 remoteVars>>

\* handleRealTimeStatsRequest
handleRealTimeStatsRequest(c) ==
  /\ wsState[c] = "OPEN"
  /\ op' = "RequestRealTimeStats"
  /\ sent' = <<Msg("B", c, "REAL_TIME_STATS", <<>>, TRUE, <<>>)>>
  /\ UNCHANGED <<wsVars, threatSubscriptions, networkTopologyClients, sockVars,
                 engineVars, probe,
                 remoteVars>>

\* A catch that closes the connection after its error frame.
WsErrorFrame_Closes(c) ==
  /\ wsState[c] = "OPEN"
  /\ wsState' = [wsState EXCEPT ![c] = "CLOSING"]
  /\ op' = "WsErrorFrame"
  /\ sent' = <<Msg("B", c, "error", <<>>, TRUE, <<>>)>>
  /\ UNCHANGED <<isAlive, awaitingPong, threatSubscriptions,
                 networkTopologyClients, sockVars, engineVars, probe,
                 remoteVars>>

\* The message handler's catch, and the default case of
\* handleWebSocketMessage: invalid JSON and an unknown type both end in one
\* error frame.
WsErrorFrame(c) ==
  /\ wsState[c] = "OPEN"
  /\ op' = "WsErrorFrame"
  /\ sent' = <<Msg("B", c, "error", <<>>, TRUE, <<>>)>>
  /\ UNCHANGED <<wsVars, threatSubscriptions, networkTopologyClients, sockVars,
                 engineVars, probe,
                 remoteVars>>

\* case "UNSUBSCRIBE" of handleWebSocketMessage: this.handleUnsubscribe is
\* not a function, the TypeError reaches the message handler's catch, which
\* sends the error frame.  No registry is touched.
WsUnsubscribe(c) ==
  /\ wsState[c] = "OPEN"
  /\ op' = "Unsubscribe"
  /\ sent' = <<Msg("B", c, "error", <<>>, TRUE, <<>>)>>
  /\ UNCHANGED <<wsVars, threatSubscriptions, networkTopologyClients, sockVars,
                 engineVars, probe,
                 remoteVars>>

\* ------------------------------------------------------------ Socket.io
\* io.on("connection")
SockConnect(s) ==
  /\ sockState[s] = "NONE"
  /\ sockState' = [sockState EXCEPT ![s] = "CONNECTED"]
  /\ connectedClients' =
       [t \in DOMAIN connectedClients \cup {s} |->
          IF t = s THEN [hasThreatFilters |-> FALSE, threatFilters |-> EmptyFilter]
          ELSE connectedClients[t]]
  /\ op' = "SockConnect"
  /\ sent' = <<>>
  /\ UNCHANGED <<wsVars, threatSubscriptions, networkTopologyClients, sockRooms,
                 engineVars, probe,
                 remoteVars>>

\* A filter update that creates the entry it does not find.
SetThreatFilters_Upsert(s, filters) ==
  [t \in DOMAIN connectedClients \cup {s} |->
     IF t = s THEN [hasThreatFilters |-> TRUE, threatFilters |-> filters]
     ELSE connectedClients[t]]

SetThreatFilters(s, filters) ==
  IF s \in DOMAIN connectedClients
  THEN [connectedClients EXCEPT
          ![s] = [hasThreatFilters |-> TRUE, threatFilters |-> filters]]
  ELSE connectedClients

\* socket.on("join-threat-room")
JoinThreatRoom(s, filters) ==
  /\ sockState[s] = "CONNECTED"
  /\ sockRooms' = [sockRooms EXCEPT ![s] = @ \cup {"threats"}]
  /\ connectedClients' = SetThreatFilters(s, filters)
  /\ op' = "JoinThreatRoom"
  /\ sent' = <<Msg("A", s, "joined-room", <<>>, TRUE, <<>>)>>
  /\ UNCHANGED <<wsVars, threatSubscriptions, networkTopologyClients, sockState,
                 engineVars, probe,
                 remoteVars>>

\* socket.on("join-network-room")
JoinNetworkRoom(s) ==
  /\ sockState[s] = "CONNECTED"
  /\ sockRooms' = [sockRooms EXCEPT ![s] = @ \cup {"network"}]
  /\ networkTopologyClients' = networkTopologyClients \cup {s}
  /\ op' = "JoinNetworkRoom"
  /\ sent' = <<Msg("A", s, "joined-room", <<>>, TRUE, <<>>)>>
  /\ UNCHANGED <<wsVars, threatSubscriptions, sockState, connectedClients,
                 engineVars, probe,
                 remoteVars>>

\* The body of socket.on("update-filters").
OnUpdateFilters(s, filters) ==
  /\ connectedClients' = SetThreatFilters(s, filters)
  /\ op' = "UpdateFilters"
  /\ sent' = IF s \in DOMAIN connectedClients
             THEN <<Msg("A", s, "filters-updated", <<>>, TRUE, <<>>)>>
             ELSE <<>>
  /\ UNCHANGED <<wsVars, threatSubscriptions, networkTopologyClients, sockState,
                 sockRooms, engineVars, probe,
                 remoteVars>>

\* socket.on("update-filters")
UpdateFilters(s, filters) ==
  /\ sockState[s] = "CONNECTED"
  /\ OnUpdateFilters(s, filters)

\* The body of socket.on("ping"): lastSeen is refreshed when the entry
\* exists, and pong is emitted.
OnSockPing(s) ==
  /\ op' = "SockPing"
  /\ sent' = <<Msg("A", s, "pong", <<>>, TRUE, <<>>)>>
  /\ UNCHANGED <<wsVars, threatSubscriptions, networkTopologyClients, sockVars,
                 engineVars, probe,
                 remoteVars>>

\* socket.on("ping")
SockPing(s) ==
  /\ sockState[s] = "CONNECTED"
  /\ OnSockPing(s)

\* The body of socket.on("disconnect"): Socket.io has left the socket's
\* rooms before the handler runs.
OnSockDisconnect(s) ==
  /\ sockState' = [sockState EXCEPT ![s] = "DISCONNECTED"]
  /\ sockRooms' = [sockRooms EXCEPT ![s] = {}]
  /\ connectedClients' =
       [t \in DOMAIN connectedClients \ {s} |-> connectedClients[t]]
  /\ networkTopologyClients' = networkTopologyClients \ {s}
  /\ op' = "SockDisconnect"
  /\ sent' = <<>>
  /\ UNCHANGED <<wsVars, threatSubscriptions, engineVars, probe,
                 remoteVars>>

\* socket.on("disconnect")
SockDisconnect(s) ==
  /\ sockState[s] = "CONNECTED"
  /\ OnSockDisconnect(s)

\* ------------------------------------------------------------ ingestion
\* InMemoryStorage.saveThreat works on the object it is given: timestamp is
\* already set by the analysis, _id is set when the object has none (the
\* generated string is unique; the model uses the object's identity).
saveThreat(threatData) ==
  IF threatData._id = 0
  THEN [threatData EXCEPT !._id = threatData.id]
  ELSE threatData

\* An ingestion that also keeps an event whose score is exactly 0.1.
processRealTimeData_AtLeast(realNetworkData, failing, store) ==
  LET threatIndicators == extractThreatIndicators(realNetworkData)
      analysisResult ==
        analyzeRealNetworkThreat(realNetworkData, threatIndicators, threatCount + 1)
      significant == Len(threatIndicators) > 0 /\ analysisResult.threatScore >= 100
      \* broadcastThreatUpdate runs on the buffer as it is before the push
      updates == IF significant
                 THEN broadcastThreatUpdate(analysisResult, failing, recentThreats)
                 ELSE <<>>
      suspended == significant /\ store = "mongo"
      \* the object the buffer holds at the end of the step: new
      \* ThreatData(analysisResult) copies it, saveThreat works on it
      buffered == IF store = "memory"
                  THEN saveThreat(analysisResult)
                  ELSE analysisResult
  IN  /\ recentThreats' = IF significant
                          THEN AppendRecent(recentThreats, buffered)
                          ELSE recentThreats
      /\ threatCount' = IF significant THEN threatCount + 1 ELSE threatCount
      /\ pendingSaves' = IF suspended THEN pendingSaves + 1 ELSE pendingSaves
      /\ owed' = [c \in WsIds |->
                    IF /\ significant
                       /\ owed[c] = <<>>
                       /\ IsOpen(c)
                       /\ c \in DOMAIN threatSubscriptions
                       /\ KeepThreat(analysisResult, threatSubscriptions[c])
                       /\ \A i \in 1..Len(updates) : updates[i].to # c
                    THEN <<buffered>>
                    ELSE owed[c]]
      /\ op' = "Ingest"
      /\ sent' = updates \o (IF suspended THEN <<>> ELSE broadcastNetworkStatus(failing))
      /\ UNCHANGED <<wsVars, threatSubscriptions, networkTopologyClients,
                     sockVars, base, probe,
                 remoteVars>>

\* processRealTimeData.  store names where the event is persisted:
\* "mongo" suspends the call in await threatData.save() (PersistDone
\* resumes it), "memory" is the in-memory storage, whose promise is already
\* settled.  A failing save is caught and logged, and the call goes on.
processRealTimeData(realNetworkData, failing, store) ==
  LET threatIndicators == extractThreatIndicators(realNetworkData)
      analysisResult ==
        analyzeRealNetworkThreat(realNetworkData, threatIndicators, threatCount + 1)
      significant == Len(threatIndicators) > 0 /\ analysisResult.threatScore > 100
      \* broadcastThreatUpdate runs on the buffer as it is before the push
      updates == IF significant
                 THEN broadcastThreatUpdate(analysisResult, failing, recentThreats)
                 ELSE <<>>
      suspended == significant /\ store = "mongo"
      \* the object the buffer holds at the end of the step: new
      \* ThreatData(analysisResult) copies it, saveThreat works on it
      buffered == IF store = "memory"
                  THEN saveThreat(analysisResult)
                  ELSE analysisResult
  IN  /\ recentThreats' = IF significant
                          THEN AppendRecent(recentThreats, buffered)
                          ELSE recentThreats
      /\ threatCount' = IF significant THEN threatCount + 1 ELSE threatCount
      /\ pendingSaves' = IF suspended THEN pendingSaves + 1 ELSE pendingSaves
      /\ owed' = [c \in WsIds |->
                    IF /\ significant
                       /\ owed[c] = <<>>
                       /\ IsOpen(c)
                       /\ c \in DOMAIN threatSubscriptions
                       /\ KeepThreat(analysisResult, threatSubscriptions[c])
                       /\ \A i \in 1..Len(updates) : updates[i].to # c
                    THEN <<buffered>>
                    ELSE owed[c]]
      /\ op' = "Ingest"
      /\ sent' = updates \o (IF suspended THEN <<>> ELSE broadcastNetworkStatus(failing))
      /\ UNCHANGED <<wsVars, threatSubscriptions, networkTopologyClients,
                     sockVars, base, probe,
                 remoteVars>>

\* The rest of processRealTimeData after await threatData.save().
PersistDone(failing) ==
  /\ pendingSaves > 0
  /\ pendingSaves' = pendingSaves - 1
  /\ op' = "PersistDone"
  /\ sent' = broadcastNetworkStatus(failing)
  /\ UNCHANGED <<wsVars, threatSubscriptions, networkTopologyClients, sockVars,
                 recentThreats, threatCount, base, owed, probe,
                 remoteVars>>

\* A resumed call whose save rejected and takes the buffered event back.
PersistFail_Rollback(failing) ==
  /\ pendingSaves > 0
  /\ pendingSaves' = pendingSaves - 1
  /\ recentThreats' = SubSeq(recentThreats, 1, Len(recentThreats) - 1)
  /\ op' = "PersistFail"
  /\ sent' = broadcastNetworkStatus(failing)
  /\ UNCHANGED <<wsVars, threatSubscriptions, networkTopologyClients, sockVars,
                 threatCount, base, owed, probe,
                 remoteVars>>

\* await threatData.save() rejects: catch (persistErr) logs the error and
\* the call goes on to broadcastNetworkStatus.
PersistFail(failing) ==
  /\ pendingSaves > 0
  /\ pendingSaves' = pendingSaves - 1
  /\ op' = "PersistFail"
  /\ sent' = broadcastNetworkStatus(failing)
  /\ UNCHANGED <<wsVars, threatSubscriptions, networkTopologyClients, sockVars,
                 recentThreats, threatCount, base, owed, probe,
                 remoteVars>>

\* ---------------------------------------------------------------- ticks
\* The batch broadcastThreatStream sends to subscriber c.
StreamBatchFor(c) ==
  IF c \in DOMAIN threatSubscriptions
  THEN filterThreatsForClient(getRecentThreats(recentThreats, StreamBatch),
                              threatSubscriptions[c])
  ELSE <<>>

StreamTargets == {c \in DOMAIN threatSubscriptions : Len(StreamBatchFor(c)) > 0}

broadcastThreatStream(failing) ==
  /\ op' = "StreamTick"
  /\ sent' = WsLoop(1, StreamTargets, "THREAT_STREAM_UPDATE",
                    [c \in WsIds |-> StreamBatchFor(c)], failing, TRUE,
                    recentThreats)
  /\ owed' = [c \in WsIds |->
                IF /\ owed[c] # <<>>
                   /\ IsOpen(c)
                   /\ c \in DOMAIN threatSubscriptions
                   /\ KeepThreat(owed[c][1], threatSubscriptions[c])
                   /\ owed[c][1] \notin Range(StreamBatchFor(c))
                THEN owed[c]
                ELSE <<>>]
  /\ UNCHANGED <<wsVars, threatSubscriptions, networkTopologyClients, sockVars,
                 recentThreats, threatCount, base, pendingSaves, probe,
                 remoteVars>>

\* Only ids of raw WebSocket clients are found in wss.clients.
broadcastNetworkTopology(failing) ==
  /\ op' = "TopologyTick"
  /\ sent' = WsLoop(1, networkTopologyClients \cap WssClients,
                    "NETWORK_TOPOLOGY_UPDATE", SameData(<<>>), failing, TRUE, <<>>)
  /\ UNCHANGED <<wsVars, threatSubscriptions, networkTopologyClients, sockVars,
                 engineVars, probe,
                 remoteVars>>

broadcastRealTimeStats(failing) ==
  /\ op' = "StatsTick"
  /\ sent' = EmitToRoom("threats", "realTimeStatsUpdate", <<>>, <<>>)
               \o WsLoop(1, WssClients, "REAL_TIME_STATS_UPDATE", SameData(<<>>),
                         failing, TRUE, <<>>)
  /\ UNCHANGED <<wsVars, threatSubscriptions, networkTopologyClients, sockVars,
                 engineVars, probe,
                 remoteVars>>

\* ------------------------------------------------------- specifications
\* Where an ingestion persists its event: the database when
\* mongoose.connection.readyState === 1, the in-memory storage otherwise.
Stores == {"mongo", "memory"}

\* The broker specifications run the server with its database connected.
DatabaseConnected == {"mongo"}

\* The sets of connections whose send throws during one step.
FailingAmong(ids) == {{}} \cup {{c} : c \in ids}

Ingest(stores, maxEvents, ids) ==
  \E d \in Feeds, f \in FailingAmong(ids), st \in stores :
    /\ threatCount < base + maxEvents
    /\ st = "mongo" => pendingSaves < MaxPending
    /\ processRealTimeData(d, f, st)

WsMessage(ids) ==
  \E c \in ids :
    \/ \E fl \in ClientFilters : handleThreatStreamSubscription(c, fl)
    \/ handleNetworkTopologySubscription(c)
    \/ handleRealTimeStatsRequest(c)
    \/ WsErrorFrame(c)
    \/ WsUnsubscribe(c)

WsLifecycle(ids) ==
  \E c \in ids : WsConnect(c) \/ WsPong(c) \/ WsPeerClose(c) \/ WsClose(c)

SockEvent ==
  \E s \in SockIds :
    \/ SockConnect(s)
    \/ \E fl \in ClientFilters : JoinThreatRoom(s, fl)
    \/ JoinNetworkRoom(s)
    \/ \E fl \in ClientFilters : UpdateFilters(s, fl)
    \/ SockDisconnect(s)

Tick(ids) ==
  \E f \in FailingAmong(ids) :
    \/ broadcastThreatStream(f)
    \/ broadcastNetworkTopology(f)
    \/ broadcastRealTimeStats(f)
    \/ PersistDone(f)

\* Both transports: the raw WebSocket connections 1..MaxDualWs and the
\* Socket.io connections.
DualWsIds == 1..MaxDualWs

Next ==
  \/ Ingest(DatabaseConnected, MaxEvents, DualWsIds)
  \/ WsMessage(DualWsIds)
  \/ WsLifecycle(DualWsIds)
  \/ SockEvent
  \/ Tick(DualWsIds)
  \/ Heartbeat

Spec == Init /\ [][Next]_vars

\* The raw WebSocket server alone, with MaxWs connections.
NextWs ==
  \/ Ingest(DatabaseConnected, MaxWsEvents, WsIds)
  \/ WsMessage(WsIds)
  \/ WsLifecycle(WsIds)
  \/ Tick(WsIds)
  \/ Heartbeat

SpecWs == Init /\ [][NextWs]_vars

\* ---------------------------------------------- registry specification
\* The registries alone, with the events of a Socket.io socket that are
\* delivered after its disconnect handler has run (the race the has-checks
\* of the handlers are written for).
LateSockEvent ==
  \E s \in SockIds :
    /\ sockState[s] = "DISCONNECTED"
    /\ \/ \E fl \in ClientFilters : OnUpdateFilters(s, fl)
       \/ OnSockPing(s)
       \/ OnSockDisconnect(s)

NextRegistry ==
  \/ WsMessage(WsIds)
  \/ WsLifecycle(WsIds)
  \/ SockEvent
  \/ \E s \in SockIds : SockPing(s)
  \/ LateSockEvent
  \/ Heartbeat

SpecRegistry == Init /\ [][NextRegistry]_vars

\* ------------------------------------------------ buffer specification
\* The engine alone, started either empty or after PreFill ingestions of
\* one feed, so that the capacity of 200 is crossed within MaxAppends.
PreFillFeed == [NoData("ipA") EXCEPT !.suspicious = 1]

PreFilled(n) ==
  [i \in 1..n |->
     analyzeRealNetworkThreat(PreFillFeed, extractThreatIndicators(PreFillFeed), i)]

BufferInit ==
  /\ NoConnections
  /\ NoPeers
  /\ probe = NoProbe
  /\ \E n \in {0, PreFill} :
       /\ recentThreats = PreFilled(n)
       /\ threatCount = n
       /\ base = n

\* The limits getRecentThreats is called with.
QueryLimits == {0, 1, 2, StreamBatch, BufferCap, BufferCap + 1}

\* A caller reads the buffer through getRecentThreats(limit).
QueryRecent(limit) ==
  /\ probe' = [fn |-> "getRecentThreats", arg |-> limit,
               out |-> getRecentThreats(recentThreats, limit)]
  /\ op' = "QueryRecent"
  /\ sent' = <<>>
  /\ UNCHANGED <<wsVars, threatSubscriptions, networkTopologyClients, sockVars,
                 engineVars, remoteVars>>

NextBuffer ==
  \/ Ingest(Stores, MaxAppends, {})
  \/ \E f \in FailingAmong({}) : PersistDone(f)
  \/ \E k \in QueryLimits : QueryRecent(k)

SpecBuffer == BufferInit /\ [][NextBuffer]_vars

\* ------------------------------------------------ stream specification
\* Raw WebSocket subscribers, one producer and the event-stream tick, with
\* up to MaxBurst ingestions, more than one batch holds.
StreamIngest ==
  \E f \in FailingAmong(WsIds) :
    /\ threatCount < MaxBurst
    /\ processRealTimeData(PreFillFeed, f, "memory")

NextStream ==
  \/ \E c \in WsIds : WsConnect(c)
  \/ \E c \in WsIds : handleThreatStreamSubscription(c, EmptyFilter)
  \/ StreamIngest
  \/ broadcastThreatStream({})

SpecStream == Init /\ [][NextStream]_vars

\* ------------------------------------------- persistence specification
\* Ingestion with the database connected or not, saves that resolve or
\* reject, one consumer on each transport and the event-stream tick.
NextPersist ==
  \/ Ingest(Stores, MaxEvents, DualWsIds)
  \/ \E f \in FailingAmong(DualWsIds) : PersistDone(f) \/ PersistFail(f)
  \/ \E c \in DualWsIds :
       WsConnect(c) \/ handleThreatStreamSubscription(c, EmptyFilter)
  \/ \E s \in SockIds : SockConnect(s) \/ JoinThreatRoom(s, EmptyFilter)
  \/ \E f \in FailingAmong(DualWsIds) : broadcastThreatStream(f)

SpecPersist == Init /\ [][NextPersist]_vars

\* ------------------------------------------------ filter specification
\* filterThreatsForClient applied to every threat list and filter below.
TestThreat(level, ip, protocol, score, category) ==
  [id |-> 0, sourceIP |-> ip, destinationIP |-> "local", protocol |-> protocol,
   threatScore |-> score, threatCategory |-> category, threatLevel |-> level]

TestScores == {0, 300, 600}

TestThreats ==
  {TestThreat(l, ip, pr, sc, cat) :
     l \in {"LOW", "HIGH"}, ip \in SourceIPs, pr \in Protocols,
     sc \in TestScores, cat \in ThreatCategories}

TestLists ==
  {<<t>> : t \in TestThreats}
    \cup {<<t, TestThreat("HIGH", "ipA", "TCP", 600, "MALWARE")>> :
            t \in TestThreats}

TestFilters ==
  {[keys |-> ks,
    threatLevels |-> IF "threatLevels" \in ks THEN lv ELSE {},
    sourceIPs |-> IF "sourceIPs" \in ks THEN ips ELSE {},
    protocols |-> IF "protocols" \in ks THEN prs ELSE {},
    minThreatScore |-> IF "minThreatScore" \in ks THEN ms ELSE 0,
    categories |-> IF "categories" \in ks THEN cats ELSE {}] :
     ks \in SUBSET FilterKeys,
     lv \in {{}, {"HIGH", "CRITICAL"}, {"LOW"}},
     ips \in {{}, {"ipA"}},
     prs \in {{}, {"TCP"}},
     ms \in TestScores,
     cats \in {{}, {"MALWARE"}}}

FilterInit ==
  /\ NoConnections
  /\ NoPeers
  /\ EmptyBuffer
  /\ \E ts \in TestLists, fl \in TestFilters :
       probe = [fn |-> "input", arg |-> [threats |-> ts, filters |-> fl],
                out |-> <<>>]

\* A filter that reverses the array it is given in place.
ApplyFilter_InPlace ==
  /\ probe.fn = "input"
  /\ probe' = [probe EXCEPT
                 !.fn = "filterThreatsForClient",
                 !.arg.threats = Reverse(@),
                 !.out = filterThreatsForClient(probe.arg.threats,
                                                probe.arg.filters)]
  /\ op' = "ApplyFilter"
  /\ UNCHANGED <<wsVars, threatSubscriptions, networkTopologyClients, sockVars,
                 engineVars, sent, remoteVars>>

ApplyFilter ==
  /\ probe.fn = "input"
  /\ probe' = [probe EXCEPT
                 !.fn = "filterThreatsForClient",
                 !.out = filterThreatsForClient(probe.arg.threats,
                                                probe.arg.filters)]
  /\ op' = "ApplyFilter"
  /\ UNCHANGED <<wsVars, threatSubscriptions, networkTopologyClients, sockVars,
                 engineVars, sent, remoteVars>>

NextFilter == ApplyFilter

SpecFilter == FilterInit /\ [][NextFilter]_vars

\* The filter called in the running broker: the events of the feeds as
\* input, and registries and buffer that change before and after the call.
RunEvents ==
  {analyzeRealNetworkThreat(d, extractThreatIndicators(d), 1) : d \in Feeds}

RunLists == {<<e>> : e \in RunEvents} \cup {<<e, f>> : e, f \in RunEvents}

FilterRunInit ==
  /\ NoConnections
  /\ EmptyBuffer
  /\ NoPeers
  /\ \E ts \in RunLists, fl \in ClientFilters :
       probe = [fn |-> "input", arg |-> [threats |-> ts, filters |-> fl],
                out |-> <<>>]

NextFilterRun ==
  \/ ApplyFilter
  \/ \E c \in DualWsIds : WsConnect(c)
  \/ \E c \in DualWsIds, fl \in ClientFilters :
       handleThreatStreamSubscription(c, fl)
  \/ Ingest({"memory"}, MaxWsEvents, {})

SpecFilterRun == FilterRunInit /\ [][NextFilterRun]_vars

\* ------------------------------------------------- stats specification
\* calculateRealTimeStats on a buffer read at time now; times in seconds.
calculateRealTimeStats(buffer, now) ==
  LET recent == getRecentThreats(buffer, StatsLimit)
      lastMinuteThreats ==
        SelectSeq(recent, LAMBDA t : t.timestamp > now - StatsWindow)
  IN  [threatsPerMinute |-> Len(lastMinuteThreats),
       criticalThreats |->
         Len(SelectSeq(lastMinuteThreats, LAMBDA t : t.threatLevel = "CRITICAL"))]

\* A buffer in push order: nOld events stamped at time 0, then nFresh
\* events stamped at time 100, the last of them CRITICAL.
StatsBuffer(nOld, nFresh) ==
  [i \in 1..(nOld + nFresh) |->
     [id |-> i,
      timestamp |-> IF i <= nOld THEN 0 ELSE 100,
      threatLevel |-> IF i = nOld + nFresh THEN "CRITICAL" ELSE "LOW"]]

StatsOld == {0, 1, 2, 50, 99}
StatsFresh == {0, 1, 2, 99, 100, 101}
StatsNow == {130, 159, 161}

StatsInit ==
  /\ NoConnections
  /\ NoPeers
  /\ EmptyBuffer
  /\ \E nOld \in StatsOld, nFresh \in StatsFresh, now \in StatsNow :
       probe = [fn |-> "input",
                arg |-> [buffer |-> StatsBuffer(nOld, nFresh), now |-> now],
                out |-> <<>>]

ApplyStats ==
  /\ probe.fn = "input"
  /\ probe' = [probe EXCEPT
                 !.fn = "calculateRealTimeStats",
                 !.out = calculateRealTimeStats(probe.arg.buffer, probe.arg.now)]
  /\ op' = "ApplyStats"
  /\ UNCHANGED <<wsVars, threatSubscriptions, networkTopologyClients, sockVars,
                 engineVars, sent, remoteVars>>

NextStats == ApplyStats

SpecStats == StatsInit /\ [][NextStats]_vars

\* ---------------------------------------------- topology specification
\* Addresses are strings, written as sequences of characters.
\* connId: `${threat.sourceIP}-${threat.destinationIP}`
ConnId(sourceIP, destinationIP) == sourceIP \o <<"-">> \o destinationIP

\* One iteration of recentThreats.forEach on the connections map, kept in
\* insertion order.
AddConnection(connections, threat) ==
  LET connId == ConnId(threat.sourceIP, threat.destinationIP)
  IN  IF \E i \in 1..Len(connections) : connections[i].connId = connId
      THEN [i \in 1..Len(connections) |->
              IF connections[i].connId = connId
              THEN [connections[i] EXCEPT !.threatCount = @ + 1]
              ELSE connections[i]]
      ELSE Append(connections,
                  [connId |-> connId, source |-> threat.sourceIP,
                   target |-> threat.destinationIP, threatCount |-> 1])

\* One iteration on the nodes map.
AddNode(nodes, threat) ==
  IF \E i \in 1..Len(nodes) : nodes[i].id = threat.sourceIP
  THEN [i \in 1..Len(nodes) |->
          IF nodes[i].id = threat.sourceIP
          THEN [nodes[i] EXCEPT !.threatCount = @ + 1]
          ELSE nodes[i]]
  ELSE Append(nodes, [id |-> threat.sourceIP, threatCount |-> 1])

RECURSIVE TopologyOf(_, _, _)
TopologyOf(threats, nodes, connections) ==
  IF threats = <<>> THEN [nodes |-> nodes, connections |-> connections]
  ELSE TopologyOf(Tail(threats), AddNode(nodes, Head(threats)),
                  AddConnection(connections, Head(threats)))

calculateNetworkTopology(buffer) ==
  TopologyOf(getRecentThreats(buffer, TopologyLimit), <<>>, <<>>)

TopoAddresses == {<<"a">>, <<"a", "-", "b">>, <<"b">>, <<"b", "-", "b">>}

TopoThreats ==
  {[sourceIP |-> src, destinationIP |-> dst] :
     src \in TopoAddresses, dst \in TopoAddresses}

TopoBuffers ==
  UNION {[1..n -> TopoThreats] : n \in 0..MaxTopoEvents}

TopologyInit ==
  /\ NoConnections
  /\ NoPeers
  /\ EmptyBuffer
  /\ \E b \in TopoBuffers : probe = [fn |-> "input", arg |-> b, out |-> <<>>]

ApplyTopology ==
  /\ probe.fn = "input"
  /\ probe' = [probe EXCEPT
                 !.fn = "calculateNetworkTopology",
                 !.out = calculateNetworkTopology(probe.arg)]
  /\ op' = "ApplyTopology"
  /\ UNCHANGED <<wsVars, threatSubscriptions, networkTopologyClients, sockVars,
                 engineVars, sent, remoteVars>>

NextTopology == ApplyTopology

SpecTopology == TopologyInit /\ [][NextTopology]_vars

\* ---------------------------------------------- severity specification
\* The real-time analysis applied to network data with up to MaxIndicators
\* indicators of each kind, and the shared utility applied to scores
\* around its thresholds.
SeverityFeeds ==
  {[publicIP |-> "ipA", suspicious |-> a, errorStats |-> b,
    agentIndicators |-> c, manyExternal |-> x, manyInternal |-> y] :
     a \in 0..MaxIndicators, b \in 0..MaxIndicators, c \in 0..MaxIndicators,
     x \in BOOLEAN, y \in BOOLEAN}

SeverityScores == {0, 100, 299, 300, 301, 599, 600, 601, 799, 800, 801, 1000}

SeverityInit ==
  /\ NoConnections
  /\ NoPeers
  /\ EmptyBuffer
  /\ \/ \E d \in SeverityFeeds :
          probe = [fn |-> "networkData", arg |-> d, out |-> <<>>]
     \/ \E sc \in SeverityScores :
          probe = [fn |-> "score", arg |-> sc, out |-> <<>>]

ApplyAnalysis ==
  /\ probe.fn = "networkData"
  /\ probe' = [probe EXCEPT
                 !.fn = "analyzeRealNetworkThreat",
                 !.out = analyzeRealNetworkThreat(
                           probe.arg, extractThreatIndicators(probe.arg), 1)]
  /\ op' = "ApplyAnalysis"
  /\ UNCHANGED <<wsVars, threatSubscriptions, networkTopologyClients, sockVars,
                 engineVars, sent, remoteVars>>

ApplyThreatLevel ==
  /\ probe.fn = "score"
  /\ probe' = [probe EXCEPT !.fn = "calculateThreatLevel",
                            !.out = calculateThreatLevel(probe.arg)]
  /\ op' = "ApplyThreatLevel"
  /\ UNCHANGED <<wsVars, threatSubscriptions, networkTopologyClients, sockVars,
                 engineVars, sent, remoteVars>>

\* The network data is ingested while a raw WebSocket client may listen.
SeverityIngest ==
  /\ probe.fn = "networkData"
  /\ threatCount < 1
  /\ processRealTimeData(probe.arg, {}, "memory")

NextSeverity ==
  \/ ApplyAnalysis
  \/ ApplyThreatLevel
  \/ SeverityIngest
  \/ \E c \in DualWsIds : WsConnect(c)

SpecSeverity == SeverityInit /\ [][NextSeverity]_vars

\* ------------------------------------------- combined score specification
\* combineAnalysisResults: the model scores are in thousandths and the
\* weights in hundredths, so the weighted sum is in units of 0.00001.  The
\* level is calculateThreatLevel of the unrounded sum (the thresholds are
\* whole thousandths, so the sum may be cut to thousandths first); the
\* stored score is Math.round(threatScore * 1000) / 1000, which rounds a
\* half upwards.
combineAnalysisResults(analyses, malicious) ==
  LET weighted == analyses.signature * 30 + analyses.anomaly * 25
                    + analyses.behavioral * 25 + analyses.ml * 20
      threatScore == IF malicious THEN Min(weighted + 30000, 100000)
                     ELSE weighted
  IN  [threatScore |-> (threatScore + 50) \div 100,
       threatLevel |-> calculateThreatLevel(threatScore \div 100),
       isBlocked |-> threatScore > 70000 \/ malicious]

\* Scores the four detection models return: the signature engine's
\* constants, capped sums of the anomaly and behavioural increments, and
\* values of the ML engine, whose score is a sigmoid of a sum that is not
\* negative plus noise of at most 0.05 and so lies between 0.45 and 1.
SignatureScores == {0, 100, 800, 980}
AnomalyScores == {0, 300, 900, 1000}
BehavioralScores == {0, 400, 900, 1000}
MLScores == {450, 548, 800, 1000}

\* Either analysis is applied: the real-time one to network data, the
\* combined one to the results of the four models.
ScoreInit ==
  /\ NoConnections
  /\ NoPeers
  /\ EmptyBuffer
  /\ \/ \E d \in SeverityFeeds :
          probe = [fn |-> "networkData", arg |-> d, out |-> <<>>]
     \/ \E sg \in SignatureScores, an \in AnomalyScores,
           bh \in BehavioralScores, ml \in MLScores, malicious \in BOOLEAN :
          probe = [fn |-> "analyses",
                   arg |-> [signature |-> sg, anomaly |-> an,
                            behavioral |-> bh, ml |-> ml,
                            malicious |-> malicious],
                   out |-> <<>>]

ApplyCombine ==
  /\ probe.fn = "analyses"
  /\ probe' = [probe EXCEPT
                 !.fn = "combineAnalysisResults",
                 !.out = combineAnalysisResults(probe.arg, probe.arg.malicious)]
  /\ op' = "ApplyCombine"
  /\ UNCHANGED <<wsVars, threatSubscriptions, networkTopologyClients, sockVars,
                 engineVars, sent, remoteVars>>

NextScore ==
  \/ ApplyAnalysis
  \/ ApplyCombine

SpecScore == ScoreInit /\ [][NextScore]_vars

\* ------------------------------------------ engine lifecycle specification
\* start() up to its first await: nothing while isRunning, else the flag
\* is set and the call is suspended.
EngineStart ==
  /\ IF engine.isRunning
     THEN engine' = engine /\ op' = "EngineStartNoOp"
     ELSE /\ engine.started < MaxEngineStarts
          /\ engine' = [engine EXCEPT !.isRunning = TRUE,
                                      !.starting = @ + 1,
                                      !.started = @ + 1,
                                      !.stopped = FALSE]
          /\ op' = "EngineStart"
  /\ sent' = <<>>
  /\ UNCHANGED <<serverVars, probe, agent, client>>

\* The rest of start() after its awaits: startContinuousMonitoring sets
\* three intervals, startMetricsBroadcasting the fourth.  None is kept in
\* a field.
EngineStarted ==
  /\ engine.starting > 0
  /\ engine' = [engine EXCEPT !.starting = @ - 1,
                              !.intervals = [t \in EngineTimers |-> @[t] + 1]]
  /\ op' = "EngineStarted"
  /\ sent' = <<>>
  /\ UNCHANGED <<serverVars, probe, agent, client>>

\* stop(): this.isRunning = false.
EngineStop ==
  /\ engine' = [engine EXCEPT !.isRunning = FALSE, !.stopped = TRUE]
  /\ op' = "EngineStop"
  /\ sent' = <<>>
  /\ UNCHANGED <<serverVars, probe, agent, client>>

\* identifyThreatCampaigns: the source IPs with three or more of the
\* threats.
identifyThreatCampaigns(threats) ==
  {ip \in {threats[i].sourceIP : i \in DOMAIN threats} :
     Cardinality({i \in DOMAIN threats : threats[i].sourceIP = ip}) >= 3}

\* correlateThreatEvents: campaignDetected to the room "threats" when the
\* last 50 events hold a campaign.
correlateThreatEvents ==
  IF identifyThreatCampaigns(getRecentThreats(recentThreats, 50)) # {}
  THEN EmitToRoom("threats", "campaignDetected", <<>>, <<>>)
  ELSE <<>>

\* broadcastMetrics: metricsUpdate to the room "threats".
broadcastMetrics == EmitToRoom("threats", "metricsUpdate", <<>>, <<>>)

\* A callback of one of the intervals runs.
EngineTick(t) ==
  /\ engine.intervals[t] > 0
  /\ sent' = CASE t = "correlation" -> correlateThreatEvents
               [] t = "broadcast" -> broadcastMetrics
               [] OTHER -> <<>>
  /\ op' = CASE t = "correlation" -> "correlateThreatEvents"
             [] t = "baseline" -> "updateBehaviorBaselines"
             [] t = "metrics" -> "updateMetrics"
             [] OTHER -> "broadcastMetrics"
  /\ UNCHANGED <<serverVars, probe, remoteVars>>

\* The engine is started and stopped while one Socket.io client listens
\* in the room "threats" and a producer sends network data.
NextLifecycle ==
  \/ EngineStart
  \/ EngineStarted
  \/ EngineStop
  \/ \E t \in EngineTimers : EngineTick(t)
  \/ \E s \in SockIds : SockConnect(s) \/ JoinThreatRoom(s, EmptyFilter)
  \/ Ingest({"memory"}, MaxCampaignEvents, {})

SpecLifecycle == Init /\ [][NextLifecycle]_vars

\* ------------------------------------------------- agent specification
\* A retry policy that gives up after the first retry.
reconnect_Capped(a) ==
  IF a.isRunning \/ a.created >= 2 THEN a
  ELSE [a EXCEPT !.timers = Append(@, ReconnectDelay)]

\* reconnect(): nothing while isRunning, else start() after the delay.
reconnect(a) ==
  IF a.isRunning THEN a
  ELSE [a EXCEPT !.timers = Append(@, ReconnectDelay)]

\* start(): this.ws = new WebSocket(...), with its three handlers.
start(a) ==
  [a EXCEPT !.ws = a.created + 1,
            !.created = a.created + 1,
            !.sockets[a.created + 1] = "CONNECTING"]

\* sendToBackend writes to this.ws.
AgentData ==
  [tr |-> "B", to |-> "backend", type |-> "REAL_NETWORK_DATA", data |-> <<>>,
   ok |-> TRUE, buffered |-> TRUE]

\* The first call of start().
AgentStart ==
  /\ agent = AgentConstructed
  /\ agent' = start(agent)
  /\ op' = "AgentStart"
  /\ sent' = <<>>
  /\ UNCHANGED <<serverVars, probe, client, engine>>

\* A timer of reconnect() fires.
AgentRetry ==
  /\ agent.timers # <<>>
  /\ agent' = start([agent EXCEPT !.timers = Tail(@)])
  /\ op' = "AgentRetry"
  /\ sent' = <<>>
  /\ UNCHANGED <<serverVars, probe, client, engine>>

\* ws.on("open"): startDataCollection sets the interval.
AgentOpen(k) ==
  /\ agent.sockets[k] = "CONNECTING"
  /\ agent' = [agent EXCEPT !.sockets[k] = "OPEN", !.isRunning = TRUE,
                            !.collectionInterval = TRUE]
  /\ op' = "AgentOpen"
  /\ sent' = <<>>
  /\ UNCHANGED <<serverVars, probe, client, engine>>

\* The attempt is refused: ws.on("error"), then ws.on("close").
AgentRefused(k) ==
  /\ agent.sockets[k] = "CONNECTING"
  /\ agent.failures < MaxAgentFailures
  /\ LET onError == reconnect([agent EXCEPT !.sockets[k] = "CLOSED",
                                           !.failures = @ + 1])
         onClose == reconnect([onError EXCEPT !.isRunning = FALSE])
     IN  agent' = onClose
  /\ op' = "AgentRefused"
  /\ sent' = <<>>
  /\ UNCHANGED <<serverVars, probe, client, engine>>

\* An open connection ends: ws.on("close"), after ws.on("error") when the
\* connection broke.
AgentClosed(k, broke) ==
  /\ agent.sockets[k] = "OPEN"
  /\ agent.failures < MaxAgentFailures
  /\ LET ended == [agent EXCEPT !.sockets[k] = "CLOSED", !.failures = @ + 1]
         onError == IF broke THEN reconnect(ended) ELSE ended
         onClose == reconnect([onError EXCEPT !.isRunning = FALSE])
     IN  agent' = onClose
  /\ op' = "AgentClosed"
  /\ sent' = <<>>
  /\ UNCHANGED <<serverVars, probe, client, engine>>

\* The interval callback up to await this.collectRealNetworkData().
AgentCollect ==
  /\ agent.collectionInterval
  /\ agent.isRunning
  /\ ~agent.collecting
  /\ agent' = [agent EXCEPT !.collecting = TRUE]
  /\ op' = "AgentCollect"
  /\ sent' = <<>>
  /\ UNCHANGED <<serverVars, probe, client, engine>>

\* The rest of the callback: sendToBackend(networkData).
sendToBackend ==
  /\ agent.collecting
  /\ LET a == [agent EXCEPT !.collecting = FALSE]
     IN  IF a.ws = 0
         THEN agent' = a /\ op' = "AgentNotConnected" /\ sent' = <<>>
         ELSE IF a.sockets[a.ws] = "OPEN"
         THEN agent' = a /\ op' = "AgentSend" /\ sent' = <<AgentData>>
         ELSE agent' = reconnect(a) /\ op' = "AgentNotReady" /\ sent' = <<>>
  /\ UNCHANGED <<serverVars, probe, client, engine>>

NextAgent ==
  \/ AgentStart
  \/ AgentRetry
  \/ \E k \in AgentSockets : AgentOpen(k)
  \/ \E k \in AgentSockets : AgentRefused(k)
  \/ \E k \in AgentSockets, broke \in BOOLEAN : AgentClosed(k, broke)
  \/ AgentCollect
  \/ sendToBackend

SpecAgent == Init /\ [][NextAgent]_vars

\* Timers fire, the interval fires, a pending collection returns, and an
\* attempt that is not refused is accepted.
AgentFairness ==
  /\ WF_vars(AgentStart)
  /\ WF_vars(AgentRetry)
  /\ \A k \in AgentSockets : WF_vars(AgentOpen(k))
  /\ WF_vars(AgentCollect)
  /\ WF_vars(sendToBackend)

SpecAgentFair == SpecAgent /\ AgentFairness

\* ------------------------------------------ agent stop specification
\* stop(): isRunning = false, the interval is cleared, this.ws is closed
\* and forgotten.  The handlers of the closed socket stay registered and
\* the timers of reconnect() are not cancelled.
stop(a) ==
  [a EXCEPT !.isRunning = FALSE,
            !.collectionInterval = FALSE,
            !.sockets = IF a.ws # 0 /\ a.sockets[a.ws] \in {"CONNECTING", "OPEN"}
                        THEN [@ EXCEPT ![a.ws] = "CLOSING"] ELSE @,
            !.ws = 0]

\* stop() is called on an agent that has been started.
AgentStop ==
  /\ agent.ws # 0
  /\ agent' = stop(agent)
  /\ op' = "AgentStop"
  /\ sent' = <<>>
  /\ UNCHANGED <<serverVars, probe, client, engine>>

\* The socket closed by stop() ends: ws.on("close"), after ws.on("error")
\* when the handshake was aborted.
AgentStopClosed(k, broke) ==
  /\ agent.sockets[k] = "CLOSING"
  /\ LET ended == [agent EXCEPT !.sockets[k] = "CLOSED"]
         onError == IF broke THEN reconnect(ended) ELSE ended
         onClose == reconnect([onError EXCEPT !.isRunning = FALSE])
     IN  agent' = onClose
  /\ op' = "AgentStopClosed"
  /\ sent' = <<>>
  /\ UNCHANGED <<serverVars, probe, client, engine>>

\* A timer fires while a WebSocket object is left to create.
AgentRetryBounded ==
  /\ agent.created < MaxAgentCreated
  /\ AgentRetry

NextAgentStop ==
  \/ AgentStart
  \/ AgentRetryBounded
  \/ \E k \in AgentSockets : AgentOpen(k)
  \/ \E k \in AgentSockets : AgentRefused(k)
  \/ \E k \in AgentSockets, broke \in BOOLEAN : AgentClosed(k, broke)
  \/ AgentCollect
  \/ sendToBackend
  \/ AgentStop
  \/ \E k \in AgentSockets, broke \in BOOLEAN : AgentStopClosed(k, broke)

SpecAgentStop == Init /\ [][NextAgentStop]_vars

\* ------------------------------------------------ client specification
\* Array.prototype.slice(start, end): a negative index counts from the end.
Slice(s, begin, end) ==
  LET from == IF begin < 0 THEN (IF Len(s) + begin < 0 THEN 0 ELSE Len(s) + begin)
              ELSE Min(begin, Len(s))
      to == IF end < 0 THEN (IF Len(s) + end < 0 THEN 0 ELSE Len(s) + end)
            ELSE Min(end, Len(s))
  IN  SubSeq(s, from + 1, to)

threatReducer(state, action) ==
  CASE action.type = "ADD_THREAT" ->
         [state EXCEPT
            !.threats = <<action.payload>> \o Slice(@, 0, ThreatsCap - 1),
            !.totalThreats = @ + 1]
    [] action.type = "ADD_THREATS_BATCH" ->
         [state EXCEPT
            !.threats =
              action.payload \o Slice(@, 0, ThreatsCap - Len(action.payload)),
            !.totalThreats = @ + Len(action.payload)]
    [] action.type = "SET_CONNECTED" ->
         [state EXCEPT !.connected = action.payload]
    [] action.type = "SET_WS_CONNECTED" ->
         [state EXCEPT !.wsConnected = action.payload]
    [] action.type = "ADD_ALERT" ->
         [state EXCEPT
            !.alerts = <<action.payload>> \o Slice(@, 0, AlertsCap - 1)]
    [] action.type = "SET_CONNECTION_QUALITY" ->
         [state EXCEPT !.connectionQuality = action.payload]
    [] OTHER -> state

dispatch(c, type, payload) ==
  [c EXCEPT !.state = threatReducer(@, [type |-> type, payload |-> payload])]

\* socketRef.current.on("connect")
ClientSocketConnect ==
  /\ ~client.socketConnected
  /\ client' = dispatch([client EXCEPT !.socketConnected = TRUE],
                        "SET_CONNECTED", TRUE)
  /\ op' = "ClientSocketConnect"
  /\ UNCHANGED <<serverVars, sent, probe, agent, engine>>

\* socketRef.current.on("disconnect")
ClientSocketDisconnect ==
  /\ client.socketConnected
  /\ client' = dispatch([client EXCEPT !.socketConnected = FALSE,
                                       !.pingTime = FALSE],
                        "SET_CONNECTED", FALSE)
  /\ op' = "ClientSocketDisconnect"
  /\ UNCHANGED <<serverVars, sent, probe, agent, engine>>

\* wsRef.current.onopen
ClientWsOpen ==
  /\ client.wsReadyState = "CONNECTING"
  /\ client' = dispatch([client EXCEPT !.wsReadyState = "OPEN"],
                        "SET_WS_CONNECTED", TRUE)
  /\ op' = "ClientWsOpen"
  /\ UNCHANGED <<serverVars, sent, probe, agent, engine>>

\* socketRef.current.on("connect_error")
ClientSocketError ==
  /\ ~client.socketConnected
  /\ client' = dispatch(client, "SET_CONNECTED", FALSE)
  /\ op' = "ClientSocketError"
  /\ UNCHANGED <<serverVars, sent, probe, agent, engine>>

\* wsRef.current.onerror: the connection is failing, onclose follows.
ClientWsError ==
  /\ client.wsReadyState \in {"CONNECTING", "OPEN"}
  /\ client' = dispatch([client EXCEPT !.wsReadyState = "CLOSING"],
                        "SET_WS_CONNECTED", FALSE)
  /\ op' = "ClientWsError"
  /\ UNCHANGED <<serverVars, sent, probe, agent, engine>>

\* A close handler that samples the quality at once.
ClientWsClose_Resamples ==
  /\ client.wsReadyState \in {"CONNECTING", "OPEN", "CLOSING"}
  /\ client' = dispatch(dispatch([client EXCEPT !.wsReadyState = "CLOSED"],
                                 "SET_WS_CONNECTED", FALSE),
                        "SET_CONNECTION_QUALITY",
                        IF client.socketConnected THEN "good" ELSE "poor")
  /\ op' = "ClientWsClose"
  /\ UNCHANGED <<serverVars, sent, probe, agent, engine>>

\* wsRef.current.onclose
ClientWsClose ==
  /\ client.wsReadyState \in {"CONNECTING", "OPEN", "CLOSING"}
  /\ client' = dispatch([client EXCEPT !.wsReadyState = "CLOSED"],
                        "SET_WS_CONNECTED", FALSE)
  /\ op' = "ClientWsClose"
  /\ UNCHANGED <<serverVars, sent, probe, agent, engine>>

\* The timer of onclose: setupWebSocket() when the socket is closed.
ClientWsReconnect ==
  /\ client.wsReadyState = "CLOSED"
  /\ client' = [client EXCEPT !.wsReadyState = "CONNECTING"]
  /\ op' = "ClientWsReconnect"
  /\ UNCHANGED <<serverVars, sent, probe, agent, engine>>

\* startHeartbeat: the 30 s interval.
ClientPing ==
  /\ client.socketConnected
  /\ ~client.pingTime
  /\ client' = [client EXCEPT !.pingTime = TRUE]
  /\ op' = "ClientPing"
  /\ UNCHANGED <<serverVars, sent, probe, agent, engine>>

\* updateConnectionQuality(latency), latency in ms.
updateConnectionQuality(latency) ==
  IF latency < 100 THEN "excellent"
  ELSE IF latency < 300 THEN "good"
  ELSE IF latency < 1000 THEN "fair"
  ELSE "poor"

Latencies == {50, 100, 299, 300, 999, 1000}

\* socketRef.current.on("pong")
ClientPong(latency) ==
  /\ client.socketConnected
  /\ client.pingTime
  /\ client' = dispatch([client EXCEPT !.pingTime = FALSE],
                        "SET_CONNECTION_QUALITY",
                        updateConnectionQuality(latency))
  /\ op' = "ClientPong"
  /\ UNCHANGED <<serverVars, sent, probe, agent, engine>>

\* startConnectionQualityMonitoring: the 10 s interval.
QualitySample(socketConnected, wsConnected) ==
  IF socketConnected /\ wsConnected THEN "excellent"
  ELSE IF socketConnected \/ wsConnected THEN "good"
  ELSE "poor"

QualityTick ==
  /\ client' = dispatch(client, "SET_CONNECTION_QUALITY",
                        QualitySample(client.socketConnected,
                                      client.wsReadyState = "OPEN"))
  /\ op' = "QualityTick"
  /\ UNCHANGED <<serverVars, sent, probe, agent, engine>>

NextClient ==
  \/ ClientSocketConnect
  \/ ClientSocketDisconnect
  \/ ClientSocketError
  \/ ClientWsOpen
  \/ ClientWsError
  \/ ClientWsClose
  \/ ClientWsReconnect
  \/ ClientPing
  \/ \E latency \in Latencies : ClientPong(latency)
  \/ QualityTick

SpecClient == Init /\ [][NextClient]_vars

\* ------------------------------------------- reconnection specification
\* The client with its timers and socket objects.  socketConnecting tells
\* that the Socket.io socket is trying to connect; wsReadyState is the
\* state of wsRef.current and orphans counts the WebSocket objects that
\* wsRef no longer references and that are connecting or open; created
\* counts the WebSocket objects made; wsTimers counts the pending timers
\* of onclose, reconnectTimers those of scheduleReconnection;
\* reconnectTimeoutRef is "null" or the state of the timer it references;
\* failures counts the connection failures; cleaned tells that cleanup()
\* has run.
ClientConnecting ==
  [state |-> initialState, socketConnected |-> FALSE,
   wsReadyState |-> "CONNECTING", pingTime |-> FALSE, dispatches |-> 0,
   socketConnecting |-> TRUE, orphans |-> 0, created |-> 1, wsTimers |-> 0,
   reconnectTimers |-> 0, reconnectTimeoutRef |-> "null", failures |-> 0,
   cleaned |-> FALSE]

ReconnectInit ==
  /\ NoConnections
  /\ EmptyBuffer
  /\ probe = NoProbe
  /\ agent = AgentConstructed
  /\ engine = EngineConstructed
  /\ client = ClientConnecting

\* clearTimeout(reconnectTimeoutRef.current)
clearReconnectTimeout(c) ==
  IF c.reconnectTimeoutRef = "pending"
  THEN [c EXCEPT !.reconnectTimers = @ - 1, !.reconnectTimeoutRef = "cleared"]
  ELSE c

\* scheduleReconnection(): the referenced timer is cleared, a new one is
\* set and referenced.
scheduleReconnection(c) ==
  [clearReconnectTimeout(c) EXCEPT !.reconnectTimers = @ + 1,
                                   !.reconnectTimeoutRef = "pending"]

\* setupWebSocket(): wsRef.current = new WebSocket(wsUrl).  The socket
\* wsRef referenced before is left as it is.
setupWebSocket(c) ==
  [c EXCEPT !.orphans = IF c.wsReadyState \in {"CONNECTING", "OPEN"}
                        THEN @ + 1 ELSE @,
            !.wsReadyState = "CONNECTING",
            !.created = @ + 1]

\* if (!wsRef.current || wsRef.current.readyState === WebSocket.CLOSED)
\*   setupWebSocket()
setupWebSocketIfClosed(c) ==
  IF c.wsReadyState = "CLOSED" THEN setupWebSocket(c) ELSE c

\* socketRef.current.on("connect"): the reconnect timer is cleared.
OnSocketConnect ==
  /\ client.socketConnecting
  /\ LET connected == dispatch([client EXCEPT !.socketConnected = TRUE,
                                              !.socketConnecting = FALSE],
                               "SET_CONNECTED", TRUE)
     IN  client' = IF connected.reconnectTimeoutRef # "null"
                   THEN [clearReconnectTimeout(connected)
                           EXCEPT !.reconnectTimeoutRef = "null"]
                   ELSE connected
  /\ op' = "OnSocketConnect"
  /\ UNCHANGED <<serverVars, sent, probe, agent, engine>>

\* socketRef.current.on("disconnect")
OnSocketDisconnect ==
  /\ client.socketConnected
  /\ client.failures < MaxClientFailures
  /\ client' = scheduleReconnection(
                 dispatch([client EXCEPT !.socketConnected = FALSE,
                                         !.pingTime = FALSE,
                                         !.failures = @ + 1],
                          "SET_CONNECTED", FALSE))
  /\ op' = "OnSocketDisconnect"
  /\ UNCHANGED <<serverVars, sent, probe, agent, engine>>

\* socketRef.current.on("connect_error")
OnSocketConnectError ==
  /\ client.socketConnecting
  /\ client.failures < MaxClientFailures
  /\ client' = scheduleReconnection(
                 dispatch([client EXCEPT !.socketConnecting = FALSE,
                                         !.failures = @ + 1],
                          "SET_CONNECTED", FALSE))
  /\ op' = "OnSocketConnectError"
  /\ UNCHANGED <<serverVars, sent, probe, agent, engine>>

\* The Socket.io socket, made by io(...) with its default options, tries
\* again by itself after a failure, until disconnect() is called on it.
OnSocketReconnectAttempt ==
  /\ ~client.cleaned
  /\ ~client.socketConnected
  /\ ~client.socketConnecting
  /\ client' = [client EXCEPT !.socketConnecting = TRUE]
  /\ op' = "OnSocketReconnectAttempt"
  /\ UNCHANGED <<serverVars, sent, probe, agent, engine>>

\* The timer of scheduleReconnection fires: socketRef.current.connect(),
\* and setupWebSocket() when the raw socket is closed.  Timers have the
\* same delay, so the referenced one, the newest, fires last.
OnReconnectTimeout ==
  /\ client.reconnectTimers > 0
  /\ LET fired == [client EXCEPT
                     !.reconnectTimers = @ - 1,
                     !.reconnectTimeoutRef =
                       IF client.reconnectTimers = 1 /\ @ = "pending"
                       THEN "fired" ELSE @,
                     !.socketConnecting = ~client.socketConnected]
     IN  client' = setupWebSocketIfClosed(fired)
  /\ op' = "OnReconnectTimeout"
  /\ UNCHANGED <<serverVars, sent, probe, agent, engine>>

\* wsRef.current.onopen
OnWsOpen ==
  /\ client.wsReadyState = "CONNECTING"
  /\ client' = dispatch([client EXCEPT !.wsReadyState = "OPEN"],
                        "SET_WS_CONNECTED", TRUE)
  /\ op' = "OnWsOpen"
  /\ UNCHANGED <<serverVars, sent, probe, agent, engine>>

\* wsRef.current.onerror: the connection is failing, onclose follows.
OnWsError ==
  /\ client.wsReadyState \in {"CONNECTING", "OPEN"}
  /\ client.failures < MaxClientFailures
  /\ client' = dispatch([client EXCEPT !.wsReadyState = "CLOSING",
                                       !.failures = @ + 1],
                        "SET_WS_CONNECTED", FALSE)
  /\ op' = "OnWsError"
  /\ UNCHANGED <<serverVars, sent, probe, agent, engine>>

\* wsRef.current.onclose: a timer is set and not kept in any ref.
OnWsClose ==
  /\ \/ client.wsReadyState = "CLOSING"
     \/ /\ client.wsReadyState \in {"CONNECTING", "OPEN"}
        /\ client.failures < MaxClientFailures
  /\ client' = dispatch([client EXCEPT
                           !.wsReadyState = "CLOSED",
                           !.wsTimers = @ + 1,
                           !.failures = IF client.wsReadyState = "CLOSING"
                                        THEN @ ELSE @ + 1],
                        "SET_WS_CONNECTED", FALSE)
  /\ op' = "OnWsClose"
  /\ UNCHANGED <<serverVars, sent, probe, agent, engine>>

\* A timer of onclose that reconnects whatever the state of the socket.
OnWsCloseTimeout_Unchecked ==
  /\ client.wsTimers > 0
  /\ client' = setupWebSocket([client EXCEPT !.wsTimers = @ - 1])
  /\ op' = "OnWsCloseTimeout"
  /\ UNCHANGED <<serverVars, sent, probe, agent, engine>>

\* The timer of onclose fires.
OnWsCloseTimeout ==
  /\ client.wsTimers > 0
  /\ client' = setupWebSocketIfClosed([client EXCEPT !.wsTimers = @ - 1])
  /\ op' = "OnWsCloseTimeout"
  /\ UNCHANGED <<serverVars, sent, probe, agent, engine>>

NextReconnect ==
  \/ OnSocketConnect
  \/ OnSocketDisconnect
  \/ OnSocketConnectError
  \/ OnSocketReconnectAttempt
  \/ OnReconnectTimeout
  \/ OnWsOpen
  \/ OnWsError
  \/ OnWsClose
  \/ OnWsCloseTimeout

SpecReconnect == ReconnectInit /\ [][NextReconnect]_vars

\* --------------------------------------------- cleanup specification
\* cleanup(), in the order of its statements: socketRef.current.disconnect()
\* runs the disconnect handler at once when the socket was connected;
\* wsRef.current.close() starts the closing of the raw socket, whose
\* onclose runs later; the heartbeat interval is cleared; the timer
\* reconnectTimeoutRef references is cleared.  The handlers stay
\* registered and the timers of onclose are not touched.
cleanup(c) ==
  LET disconnected ==
        IF c.socketConnected
        THEN scheduleReconnection(
               dispatch([c EXCEPT !.socketConnected = FALSE,
                                  !.pingTime = FALSE],
                        "SET_CONNECTED", FALSE))
        ELSE [c EXCEPT !.socketConnecting = FALSE]
      closing ==
        [disconnected EXCEPT
           !.wsReadyState = IF @ \in {"CONNECTING", "OPEN"} THEN "CLOSING" ELSE @]
  IN  [clearReconnectTimeout(closing) EXCEPT !.cleaned = TRUE]

\* The provider is unmounted.
Cleanup ==
  /\ ~client.cleaned
  /\ client' = cleanup(client)
  /\ op' = "Cleanup"
  /\ UNCHANGED <<serverVars, sent, probe, agent, engine>>

NextCleanup ==
  \/ NextReconnect
  \/ Cleanup

SpecCleanup == ReconnectInit /\ [][NextCleanup]_vars

\* ----------------------------------------------- reducer specification
\* The client lists, started empty or one entry short of their capacity.
\* Entries are numbered in the order of their arrival.
ClientWith(nThreats, nAlerts) ==
  [ClientMounted EXCEPT
     !.state.threats = [i \in 1..nThreats |-> nThreats + 1 - i],
     !.state.totalThreats = nThreats,
     !.state.alerts = [i \in 1..nAlerts |-> nAlerts + 1 - i]]

ReducerInit ==
  /\ NoConnections
  /\ EmptyBuffer
  /\ probe = NoProbe
  /\ agent = AgentConstructed
  /\ engine = EngineConstructed
  /\ \E nThreats \in {0, ThreatsCap - 1}, nAlerts \in {0, AlertsCap - 1} :
       client = ClientWith(nThreats, nAlerts)

\* socketRef.current.on("threatUpdate"): ADD_THREAT, and showThreatAlert
\* (ADD_ALERT) for a HIGH or CRITICAL threat.
OnThreatUpdate(level) ==
  /\ client.dispatches < MaxDispatch
  /\ LET threat == client.state.totalThreats + 1
         added == dispatch([client EXCEPT !.dispatches = @ + 1],
                           "ADD_THREAT", threat)
     IN  client' = IF level = "HIGH" \/ level = "CRITICAL"
                   THEN dispatch(added, "ADD_ALERT", threat)
                   ELSE added
  /\ op' = "ClientThreatUpdate"
  /\ UNCHANGED <<serverVars, sent, probe, agent, engine>>

BatchSizes == {1, 2, ThreatsCap, ThreatsCap + 1}

\* socketRef.current.on("threatBatchUpdate") and THREAT_STREAM_UPDATE:
\* ADD_THREATS_BATCH with the array received.
OnThreatBatch(n) ==
  /\ client.dispatches < MaxDispatch
  /\ client' = dispatch([client EXCEPT !.dispatches = @ + 1],
                        "ADD_THREATS_BATCH",
                        [i \in 1..n |-> client.state.totalThreats + n + 1 - i])
  /\ op' = "ClientThreatBatch"
  /\ UNCHANGED <<serverVars, sent, probe, agent, engine>>

NextReducer ==
  \/ \E level \in {"LOW", "HIGH"} : OnThreatUpdate(level)
  \/ \E n \in BatchSizes : OnThreatBatch(n)

SpecReducer == ReducerInit /\ [][NextReducer]_vars

\* --------------------------------------------- dashboard specification
\* The browser client is the peer of raw WebSocket connection ClientWs and
\* of Socket.io connection ClientSock.
ClientWs == 1
ClientSock == 101

\* --------------------------------------------- threshold specification
\* Ingestion with the database connected or not, saves that resolve or
\* reject, a raw WebSocket consumer and a Socket.io consumer in the rooms
\* "threats" and "network".
NextThreshold ==
  \/ Ingest(Stores, MaxEvents, {ClientWs})
  \/ \E f \in FailingAmong({ClientWs}) : PersistDone(f) \/ PersistFail(f)
  \/ WsConnect(ClientWs)
  \/ SockConnect(ClientSock)
  \/ JoinThreatRoom(ClientSock, EmptyFilter)
  \/ JoinNetworkRoom(ClientSock)

SpecThreshold == Init /\ [][NextThreshold]_vars

\* The handlers of the client for one message of the server: threatUpdate
\* over Socket.io (ADD_THREAT, and showThreatAlert for a HIGH or CRITICAL
\* threat), THREAT_STREAM_UPDATE over the raw WebSocket (ADD_THREATS_BATCH
\* when the array is not empty).  No other message changes the lists, and
\* a handler runs only on a connection the client has seen open.
handleMessage(c, m) ==
  IF ~m.ok THEN c
  ELSE IF /\ c.socketConnected
          /\ m.tr = "A"
          /\ m.to = ClientSock
          /\ m.type = "threatUpdate"
    THEN LET added == dispatch(c, "ADD_THREAT", m.data[1])
         IN  IF m.data[1].threatLevel \in {"HIGH", "CRITICAL"}
             THEN dispatch(added, "ADD_ALERT", m.data[1])
             ELSE added
  ELSE IF /\ c.wsReadyState = "OPEN"
          /\ m.tr = "B"
          /\ m.to = ClientWs
          /\ m.type = "THREAT_STREAM_UPDATE"
          /\ Len(m.data) > 0
    THEN dispatch(c, "ADD_THREATS_BATCH", m.data)
  ELSE c

RECURSIVE handleMessages(_, _)
handleMessages(c, msgs) ==
  IF msgs = <<>> THEN c
  ELSE handleMessages(handleMessage(c, Head(msgs)), Tail(msgs))

\* The sends of the server's last step reach the client, which handles
\* them in order.
ClientReceive ==
  /\ client.dispatches < MaxDispatch
  /\ handleMessages(client, sent) # client
  /\ client' = handleMessages([client EXCEPT !.dispatches = @ + 1], sent)
  /\ op' = "ClientReceive"
  /\ sent' = <<>>
  /\ UNCHANGED <<serverVars, probe, agent, engine>>

\* The client connects and subscribes on both transports, network data is
\* ingested, the event-stream tick runs.
NextDashboard ==
  \/ WsConnect(ClientWs)
  \/ handleThreatStreamSubscription(ClientWs, EmptyFilter)
  \/ SockConnect(ClientSock)
  \/ JoinThreatRoom(ClientSock, EmptyFilter)
  \/ Ingest({"memory"}, MaxEvents, {})
  \/ broadcastThreatStream({})
  \/ ClientSocketConnect
  \/ ClientWsOpen
  \/ ClientReceive

SpecDashboard == Init /\ [][NextDashboard]_vars

\* --------------------------------------------------------------- claims
Sent == Range(sent)

\* The messages that notify a consumer of one new event.
EventNotifications == {"threatUpdate", "criticalThreatAlert", "THREAT_UPDATE"}

\* The messages of the periodic and per-ingestion broadcast passes.
BroadcastTypes ==
  {"THREAT_UPDATE", "NETWORK_STATUS_UPDATE", "THREAT_STREAM_UPDATE",
   "NETWORK_TOPOLOGY_UPDATE", "REAL_TIME_STATS_UPDATE"}

\* The four filter rules of the claims: severity, category, minimum score
\* and source address; a rule that is absent or empty admits every event.
Matches(event, filters) ==
  /\ (Has(filters, "threatLevels") /\ filters.threatLevels # {})
       => event.threatLevel \in filters.threatLevels
  /\ (Has(filters, "categories") /\ filters.categories # {})
       => event.threatCategory \in filters.categories
  /\ Has(filters, "minThreatScore") => event.threatScore >= filters.minThreatScore
  /\ (Has(filters, "sourceIPs") /\ filters.sourceIPs # {})
       => event.sourceIP \in filters.sourceIPs

HighCritical ==
  [EmptyFilter EXCEPT !.keys = {"threatLevels"},
                      !.threatLevels = {"HIGH", "CRITICAL"}]

\* C1: at the moment a consumer is notified of an event (threatUpdate,
\* criticalThreatAlert, THREAT_UPDATE) the recent-threat buffer already
\* contains that event.
C1_AppendedBeforeBroadcast ==
  \A m \in Sent : m.type \in EventNotifications => m.buffered

C2_LowThenHigh ==
  /\ Len(recentThreats) = 2
  /\ {recentThreats[1].threatLevel, recentThreats[2].threatLevel} = {"LOW", "HIGH"}

C2_HighOnly == SelectSeq(recentThreats, LAMBDA e : e.threatLevel = "HIGH")

\* C2: every event of a THREAT_STREAM_UPDATE batch satisfies the filter its
\* receiver has registered at the tick; a subscriber admitting only HIGH and
\* CRITICAL gets, after one LOW and one HIGH event, a batch of the HIGH one.
C2_StreamBatchFiltered ==
  /\ \A m \in Sent :
       m.type = "THREAT_STREAM_UPDATE" =>
         /\ m.to \in DOMAIN threatSubscriptions
         /\ \A e \in Range(m.data) : Matches(e, threatSubscriptions[m.to])
  /\ \A c \in WsIds :
       (/\ op = "StreamTick"
        /\ C2_LowThenHigh
        /\ IsOpen(c)
        /\ c \in DOMAIN threatSubscriptions
        /\ threatSubscriptions[c] = HighCritical)
       => \E m \in Sent :
            m.to = c /\ m.type = "THREAT_STREAM_UPDATE" /\ m.data = C2_HighOnly

\* C3: filterThreatsForClient keeps an event exactly when every rule present
\* in the filter admits it (severity, category, minimum score, source
\* address).
C3_FilterIsConjunction ==
  probe.fn = "filterThreatsForClient" =>
    probe.out = SelectSeq(probe.arg.threats,
                          LAMBDA e : Matches(e, probe.arg.filters))

\* C4: after an ingestion the buffer holds at most BufferCap events, and
\* they are exactly the last min(appended, BufferCap) appended events in
\* insertion order.
C4_BufferKeepsLastN ==
  /\ Len(recentThreats) <= BufferCap
  /\ Len(recentThreats) = Min(threatCount, BufferCap)
  /\ \A i \in 1..Len(recentThreats) :
       recentThreats[i].id = threatCount - Len(recentThreats) + i

C4_Witness ==
  /\ threatCount > BufferCap + 1
  /\ Len(recentThreats) = BufferCap
  /\ recentThreats[1].id = threatCount - BufferCap + 1

\* C5: getRecentThreats(k) returns min(k, size) events, the k most recently
\* appended, most recent first, for every k >= 0.
C5_RecentIsNewestFirst ==
  op = "QueryRecent" =>
    LET k == Min(probe.arg, Len(recentThreats))
    IN  probe.out =
          Reverse(SubSeq(recentThreats, Len(recentThreats) - k + 1,
                         Len(recentThreats)))

\* C6: when an ingested event is HIGH or CRITICAL, the ingestion step itself
\* pushes it to every member of the Socket.io threat room and to every open
\* raw-WebSocket threat-stream subscriber, whatever the subscriber's filter.
C6_AlertReachesEverySubscriber ==
  \A n \in Sent :
    (n.type \in {"threatUpdate", "THREAT_UPDATE"}
       /\ n.data[1].threatLevel \in {"HIGH", "CRITICAL"})
    => /\ \A s \in RoomMembers("threats") :
            \E m \in Sent :
              m.to = s /\ m.type = "criticalThreatAlert" /\ m.data = n.data
       /\ \A c \in DOMAIN threatSubscriptions :
            IsOpen(c) =>
              \E m \in Sent :
                m.to = c /\ m.type = "THREAT_UPDATE" /\ m.data = n.data

C7_Step ==
  /\ op' = "Heartbeat" =>
       \A c \in WsIds :
         (wsState[c] = "OPEN" /\ awaitingPong[c]) => wsState'[c] = "TERMINATED"
  /\ \A m \in Range(sent') :
       (m.tr = "B" /\ m.type \in BroadcastTypes) =>
         (wsState[m.to] = "OPEN" /\ wsState'[m.to] = "OPEN")

\* C7: a raw WebSocket connection that was pinged and has sent no pong is
\* terminated at the next heartbeat tick, and no broadcast pass writes to a
\* connection that is not open.
C7_DeadConnectionSkipped == [][C7_Step]_vars

C7_Witness ==
  /\ op = "StreamTick"
  /\ \E c \in DOMAIN threatSubscriptions :
       /\ wsState[c] = "TERMINATED"
       /\ Len(StreamBatchFor(c)) > 0
       /\ \A m \in Sent : m.to # c
  /\ \E m \in Sent : m.type = "THREAT_STREAM_UPDATE"

C8_Step ==
  \A c \in WsIds :
    (wsState[c] # "TERMINATED" /\ wsState'[c] = "TERMINATED") =>
      (op' = "Heartbeat" /\ c \in WssClients /\ awaitingPong[c])

\* C8: the heartbeat terminates a connection only when a ping was sent to
\* it at an earlier tick and no pong has arrived since.
C8_EvictOnlyAwaitingPong == [][C8_Step]_vars

C8_Witness ==
  /\ op = "Heartbeat"
  /\ \E c, d \in WsIds :
       /\ wsState[c] = "TERMINATED"
       /\ wsState[d] = "OPEN"
       /\ awaitingPong[d]
       /\ d < c

C9_PassReachesAll(type, targets) ==
  (\E m \in Sent : m.type = type) =>
    \A c \in targets : IsOpen(c) => \E m \in Sent : m.type = type /\ m.to = c

\* C9: in every broadcast pass a send that throws for one connection does
\* not prevent the send to any other open connection of that pass.
C9_SendFailureDoesNotAbortPass ==
  /\ C9_PassReachesAll("THREAT_UPDATE", WsIds)
  /\ C9_PassReachesAll("REAL_TIME_STATS_UPDATE", WsIds)
  /\ C9_PassReachesAll("THREAT_STREAM_UPDATE", StreamTargets)
  /\ C9_PassReachesAll("NETWORK_TOPOLOGY_UPDATE", networkTopologyClients)

\* C10: every entry of connectedClients, threatSubscriptions and
\* networkTopologyClients belongs to a connection whose close or disconnect
\* event has not happened.
C10_NoSubscriptionOutlivesConnection ==
  /\ \A s \in DOMAIN connectedClients : sockState[s] = "CONNECTED"
  /\ \A c \in DOMAIN threatSubscriptions : c \in WssClients
  /\ \A x \in networkTopologyClients :
       \/ x \in WsIds /\ x \in WssClients
       \/ x \in SockIds /\ sockState[x] = "CONNECTED"

SubscribeOps ==
  {"SubscribeThreatStream", "RepeatThreatStream", "ReplaceThreatStream"}

C11_Step ==
  /\ op' \in SubscribeOps =>
       \E c \in WsIds :
         /\ sent'[1].to = c
         /\ DOMAIN threatSubscriptions' = DOMAIN threatSubscriptions \cup {c}
         /\ threatSubscriptions'[c] = sent'[1].data[1]
         /\ \A d \in DOMAIN threatSubscriptions \ {c} :
              threatSubscriptions'[d] = threatSubscriptions[d]
         /\ op' = "RepeatThreatStream" => threatSubscriptions' = threatSubscriptions
  /\ op' = "StreamTick" =>
       \A m \in Range(sent') :
         m.data = SelectSeq(getRecentThreats(recentThreats, StreamBatch),
                            LAMBDA e : KeepThreat(e, threatSubscriptions[m.to]))

C12_UnsubscribeDestroys ==
  op = "Unsubscribe" =>
    /\ \A m \in Sent : m.type # "error"
    /\ \A m \in Sent : m.to \notin DOMAIN threatSubscriptions

C13_Step ==
  /\ \A s \in SockIds :
       (sockState[s] # "CONNECTED" /\ sockState'[s] # "CONNECTED") =>
         /\ s \in DOMAIN connectedClients' <=> s \in DOMAIN connectedClients
         /\ s \in networkTopologyClients' <=> s \in networkTopologyClients
  /\ \A c \in WsIds :
       (c \notin WssClients /\ wsState'[c] = wsState[c]) =>
         /\ c \in DOMAIN threatSubscriptions' <=> c \in DOMAIN threatSubscriptions
         /\ c \in networkTopologyClients' <=> c \in networkTopologyClients
  /\ (op' \in {"UpdateFilters", "SockPing", "SockDisconnect"}
        /\ \A s \in SockIds : sockState[s] # "CONNECTED")
       => UNCHANGED <<connectedClients, threatSubscriptions,
                      networkTopologyClients>>
  /\ \A c \in WsIds :
       (op' = "WsClose" /\ wsState'[c] # wsState[c]
          /\ c \notin DOMAIN threatSubscriptions)
       => UNCHANGED <<connectedClients, threatSubscriptions,
                      networkTopologyClients>>

\* C13: an update-filters, ping, disconnect or close event for a connection
\* that has no registry entry changes no registry and creates no entry.
C13_UnknownIdIsNoOp == [][C13_Step]_vars

C13_Witness ==
  /\ op = "UpdateFilters"
  /\ \A s \in SockIds : sockState[s] # "CONNECTED"
  /\ \E s \in SockIds : sockState[s] = "DISCONNECTED"
  /\ connectedClients = << >>

C14_Step ==
  op' = "WsErrorFrame" =>
    /\ Len(sent') = 1
    /\ sent'[1].type = "error"
    /\ sent'[1].tr = "B"
    /\ wsState[sent'[1].to] = "OPEN"
    /\ UNCHANGED <<wsState, isAlive, threatSubscriptions, networkTopologyClients,
                   connectedClients, sockState, sockRooms, recentThreats,
                   pendingSaves>>

\* C14: a raw WebSocket message that is not valid JSON or has an unknown
\* type is answered with exactly one error frame to its sender; the buffer,
\* the registries, the liveness flag and the connection's state stay as
\* they were, so every handler enabled before is enabled after.
C14_BadMessageOnlyErrorFrame == [][C14_Step]_vars

C14_Witness ==
  /\ op = "WsErrorFrame"
  /\ Len(recentThreats) > 0
  /\ sent[1].to \in DOMAIN threatSubscriptions
  /\ \E d \in WsIds : d # sent[1].to /\ wsState[d] = "OPEN"

\* C15: an event ingested while a connection is an open subscriber whose
\* filter admits it has reached that connection, by the immediate push or
\* in the batch of the next event-stream tick, once that tick is over.
C15_SubscriberReceivesEvent ==
  op = "StreamTick" => \A c \in WsIds : owed[c] = <<>>

\* C16: every event of a threatUpdate delivered to a Socket.io client that
\* registered filters (join-threat-room or update-filters) is one the rules
\* of filterThreatsForClient keep under the client's current filters.
C16_SocketIoDeliveryFiltered ==
  \A m \in Sent :
    (/\ m.tr = "A"
     /\ m.type = "threatUpdate"
     /\ m.to \in DOMAIN connectedClients
     /\ connectedClients[m.to].hasThreatFilters)
    => \A e \in Range(m.data) :
         KeepThreat(e, connectedClients[m.to].threatFilters)

\* C17: an aggregate-stats tick sends the stats message to every connected
\* Socket.io client and every open raw WebSocket client, whatever rooms or
\* subscriptions the connection has.
C17_StatsReachEveryConnection ==
  op = "StatsTick" =>
    /\ \A s \in SockIds :
         sockState[s] = "CONNECTED" =>
           \E m \in Sent : m.to = s /\ m.type = "realTimeStatsUpdate"
    /\ \A c \in WsIds :
         IsOpen(c) => \E m \in Sent : m.to = c /\ m.type = "REAL_TIME_STATS_UPDATE"

\* C20: a topology tick sends a snapshot to every connected Socket.io client
\* that joined the network room and to every open raw WebSocket client that
\* subscribed to the network topology.
C20_TopologyReachesBothTransports ==
  op = "TopologyTick" =>
    \A x \in networkTopologyClients :
      /\ (x \in SockIds /\ sockState[x] = "CONNECTED") =>
           \E m \in Sent : m.to = x /\ m.type = "networkTopologyUpdate"
      /\ (x \in WsIds /\ IsOpen(x)) =>
           \E m \in Sent : m.to = x /\ m.type = "NETWORK_TOPOLOGY_UPDATE"

\* C18: the reported per-minute count equals the number of buffered events
\* whose timestamp lies within the last minute.
C18_StatsCoverWholeWindow ==
  probe.fn = "calculateRealTimeStats" =>
    probe.out.threatsPerMinute =
      Cardinality({i \in DOMAIN probe.arg.buffer :
                     probe.arg.buffer[i].timestamp > probe.arg.now - StatsWindow})

RECURSIVE C19_SumCounts(_)
C19_SumCounts(edges) ==
  IF edges = <<>> THEN 0 ELSE Head(edges).threatCount + C19_SumCounts(Tail(edges))

\* C19: the snapshot has exactly one edge per distinct (source, destination)
\* pair of the events considered, each edge counts the events of its pair,
\* and the counts sum to the number of events considered.
C19_OneEdgePerPair ==
  probe.fn = "calculateNetworkTopology" =>
    LET considered == getRecentThreats(probe.arg, TopologyLimit)
        edges == probe.out.connections
        PairAt(i) == <<considered[i].sourceIP, considered[i].destinationIP>>
        pairs == {PairAt(i) : i \in DOMAIN considered}
    IN  /\ Len(edges) = Cardinality(pairs)
        /\ \A p \in pairs :
             \E i \in DOMAIN edges :
               /\ edges[i].source = p[1]
               /\ edges[i].target = p[2]
               /\ edges[i].threatCount =
                    Cardinality({j \in DOMAIN considered : PairAt(j) = p})
        /\ C19_SumCounts(edges) = Len(considered)

\* The recent events a filter admits by the rules of the claims.
C21_Admitted(c) ==
  SelectSeq(getRecentThreats(recentThreats, StreamBatch),
            LAMBDA e : Matches(e, threatSubscriptions[c]))

C21_Batches(c) ==
  {i \in 1..Len(sent) : sent[i].to = c /\ sent[i].type = "THREAT_STREAM_UPDATE"}

\* C21: at an event-stream tick a subscriber whose filter admits none of the
\* recent events is sent no message, and every open subscriber with at least
\* one admitted event is sent exactly one batched message.
C21_OneBatchPerAdmittingSubscriber ==
  op = "StreamTick" =>
    \A c \in DOMAIN threatSubscriptions :
      /\ C21_Admitted(c) = <<>> => C21_Batches(c) = {}
      /\ (IsOpen(c) /\ C21_Admitted(c) # <<>>) => Cardinality(C21_Batches(c)) = 1

C22_Step ==
  (/\ op' = "Ingest"
   /\ threatCount' = threatCount + 1
   /\ DOMAIN threatSubscriptions = {}
   /\ RoomMembers("threats") = {})
  => /\ Len(recentThreats') = Len(recentThreats) + 1
     /\ recentThreats'[Len(recentThreats')].id = threatCount'
     /\ \A m \in Range(sent') : m.type \notin EventNotifications

\* C22: when no connection has subscribed to the threat stream, ingesting a
\* significant event appends it to the buffer (length + 1) and attempts no
\* send of that event to any connection.
C22_NoSubscriberNoSend == [][C22_Step]_vars

C23_Step ==
  /\ (op' = "Ingest" /\ threatCount' = threatCount + 1) =>
       /\ recentThreats' # <<>>
       /\ recentThreats'[Len(recentThreats')].id = threatCount'
       /\ \A s \in RoomMembers("threats") :
            \E m \in Range(sent') :
              m.to = s /\ m.type = "threatUpdate" /\ m.data[1].id = threatCount'
       /\ (\E c \in WsIds : IsOpen(c)) =>
            \E m \in Range(sent') :
              m.type = "THREAT_UPDATE" /\ m.data[1].id = threatCount'
  /\ op' = "PersistFail" =>
       /\ recentThreats' = recentThreats
       /\ threatCount' = threatCount
       /\ \A s \in RoomMembers("network") :
            \E m \in Range(sent') : m.to = s /\ m.type = "networkStatusUpdate"
  /\ op' = "StreamTick" =>
       \A c \in DOMAIN threatSubscriptions :
         (IsOpen(c) /\ recentThreats # <<>>) =>
           \E m \in Range(sent') :
             /\ m.to = c
             /\ m.type = "THREAT_STREAM_UPDATE"
             /\ m.data = getRecentThreats(recentThreats, StreamBatch)

\* C23: when the database is not connected or the save of an ingestion
\* rejects, the event is still appended to the buffer and broadcast, the
\* call goes on, and later ingestions and event-stream ticks work from the
\* buffer.
C23_PersistenceIsBestEffort == [][C23_Step]_vars

\* A save rejected: its event is buffered and the call went on to the
\* status broadcast.
C23_Witness ==
  /\ op = "PersistFail"
  /\ Len(recentThreats) = threatCount
  /\ threatCount >= 1
  /\ \E m \in Sent : m.type = "NETWORK_STATUS_UPDATE"

C24_Step ==
  /\ \A i \in DOMAIN recentThreats :
       \A j \in DOMAIN recentThreats' :
         recentThreats'[j].id = recentThreats[i].id =>
           recentThreats'[j] = recentThreats[i]
  /\ (op' = "Ingest" /\ threatCount' = threatCount + 1) =>
       \A m \in Range(sent') :
         m.type \in EventNotifications =>
           recentThreats'[Len(recentThreats')] = m.data[1]

\* C24: an event of the recent-event buffer keeps exactly the fields it had
\* when it was appended: no step changes a buffered event, and after the
\* ingestion step (append, then persistence) the buffer returns the event as
\* it was broadcast and pushed.
C24_BufferedEventImmutable == [][C24_Step]_vars

\* The thresholds of the claim, on a score in thousandths.
C25_Severity(s) ==
  IF s >= 800 THEN "CRITICAL"
  ELSE IF s >= 600 THEN "HIGH"
  ELSE IF s >= 300 THEN "MEDIUM"
  ELSE "LOW"

C25_Rank(level) ==
  CASE level = "LOW" -> 0
    [] level = "MEDIUM" -> 1
    [] level = "HIGH" -> 2
    [] level = "CRITICAL" -> 3

\* C25: the severity of an event is derived from its score s by the fixed
\* thresholds (CRITICAL iff s >= 0.8, HIGH iff 0.6 <= s < 0.8, MEDIUM iff
\* 0.3 <= s < 0.6, LOW iff s < 0.3), the mapping is monotone in s, and the
\* shared utility and the real-time analysis implement the same mapping.
C25_SeverityFromScore ==
  /\ probe.fn = "calculateThreatLevel" =>
       /\ probe.out = C25_Severity(probe.arg)
       /\ \A t \in SeverityScores :
            t <= probe.arg =>
              C25_Rank(calculateThreatLevel(t)) <= C25_Rank(probe.out)
  /\ probe.fn = "analyzeRealNetworkThreat" =>
       /\ probe.out.threatLevel = C25_Severity(probe.out.threatScore)
       /\ probe.out.threatLevel = calculateThreatLevel(probe.out.threatScore)

\* C26: every event that is appended to the buffer or broadcast has a score
\* within [0, 1], whatever the number and the severities of the indicators
\* extracted from the ingested data.
C26_ScoreInUnitInterval ==
  /\ \A e \in Range(recentThreats) : e.threatScore \in 0..1000
  /\ \A m \in Sent :
       \A e \in Range(m.data) : e.threatScore \in 0..1000
  /\ probe.fn = "analyzeRealNetworkThreat" => probe.out.threatScore \in 0..1000

\* Indicators whose weights sum to more than 1 were ingested and broadcast.
C26_Witness ==
  /\ op = "Ingest"
  /\ probe.fn = "networkData"
  /\ SumWeights(<<0, 0>>, extractThreatIndicators(probe.arg))[1] > 1000
  /\ Len(recentThreats) = 1
  /\ recentThreats[1].threatScore = 1000
  /\ \E m \in Sent : m.type = "THREAT_UPDATE" /\ m.data[1].threatScore = 1000

\* The agent is CONNECTED: isRunning, and this.ws is open.
C27_Connected ==
  /\ agent.isRunning
  /\ agent.ws # 0
  /\ agent.sockets[agent.ws] = "OPEN"

C27_Step ==
  /\ \A i \in DOMAIN agent'.timers : agent'.timers[i] = ReconnectDelay
  /\ op' \in {"AgentRefused", "AgentClosed"} =>
       Len(agent'.timers) > Len(agent.timers)

\* C27: whenever the agent's connection is refused or ends, a retry is
\* scheduled after the fixed delay, however many retries were made before;
\* when attempts are accepted the agent gets connected again and keeps
\* sending data.
C27_AgentReconnects ==
  /\ [][C27_Step]_vars
  /\ (~C27_Connected) ~> C27_Connected
  /\ []<>(op = "AgentSend")

C27_Witness ==
  /\ op = "AgentSend"
  /\ agent.failures = MaxAgentFailures
  /\ agent.ws > 1
  /\ C27_Connected

C28_Quality == client.state.connectionQuality

C28_Step ==
  /\ C28_Quality' # C28_Quality => op' \in {"QualityTick", "ClientPong"}
  /\ op' = "QualityTick" =>
       LET alive == (IF client.socketConnected THEN 1 ELSE 0)
                      + (IF client.wsReadyState = "OPEN" THEN 1 ELSE 0)
       IN  /\ C28_Quality' = "excellent" <=> alive = 2
           /\ C28_Quality' = "good" <=> alive = 1
           /\ C28_Quality' = "poor" <=> alive = 0
  /\ (/\ op' \in {"ClientWsClose", "ClientWsError"}
      /\ client.socketConnected
      /\ client.wsReadyState = "OPEN"
      /\ C28_Quality = "excellent")
     => C28_Quality' = "excellent"
  /\ (/\ op' = "QualityTick"
      /\ client.socketConnected
      /\ client.wsReadyState # "OPEN"
      /\ C28_Quality = "excellent")
     => C28_Quality' = "good"

\* C28: the connection quality changes only at a sampling tick or when a
\* latency sample arrives; when both transports are alive with quality
\* "excellent" and the raw WebSocket drops, the quality stays "excellent"
\* until the next sampling tick, which makes it "good"; a sample gives
\* excellent, good or poor exactly when both, exactly one or neither
\* transport is alive.
C28_QualityChangesAtTick == [][C28_Step]_vars

\* The raw WebSocket has dropped and the quality is still "excellent".
C28_Witness ==
  /\ op = "ClientWsClose"
  /\ client.socketConnected
  /\ client.wsReadyState = "CLOSED"
  /\ ~client.state.wsConnected
  /\ C28_Quality = "excellent"

C29_Threats == client.state.threats

C29_Alerts == client.state.alerts

C29_Step ==
  op' \in {"ClientThreatUpdate", "ClientThreatBatch"} =>
    LET added == client'.state.totalThreats - client.state.totalThreats
        kept == Len(C29_Threats') - Min(added, ThreatsCap)
    IN  /\ Len(C29_Threats') = Min(Len(C29_Threats) + added, ThreatsCap)
        /\ C29_Threats'[1] = client'.state.totalThreats
        /\ \A i \in 1..kept : C29_Threats'[Min(added, ThreatsCap) + i] = C29_Threats[i]
        /\ Len(C29_Alerts') <= AlertsCap
        /\ \/ C29_Alerts' = C29_Alerts
           \/ /\ Len(C29_Alerts') = Min(Len(C29_Alerts) + 1, AlertsCap)
              /\ Tail(C29_Alerts') = SubSeq(C29_Alerts, 1, Len(C29_Alerts') - 1)

\* C29: after any ADD_THREAT, ADD_THREATS_BATCH (of any size) or ADD_ALERT
\* the threats list holds at most 1000 entries and the alerts list at most
\* 50, the newest entries being kept and the oldest dropped.
C29_ClientListsBounded == [][C29_Step]_vars

C30_Step ==
  op' = "ApplyFilter" =>
    /\ probe'.arg = probe.arg
    /\ UNCHANGED <<recentThreats, threatSubscriptions, networkTopologyClients,
                   connectedClients, wsState, sockState, sockRooms>>

C31_Live == {k \in AgentSockets : agent.sockets[k] \in {"CONNECTING", "OPEN"}}

\* C31: the producer agent has at most one pending reconnect timer and at
\* most one WebSocket that is connecting or open at any time; a refused
\* attempt, whose socket emits both error and close, schedules one retry.
C31_SingleRetry ==
  /\ Len(agent.timers) <= 1
  /\ Cardinality(C31_Live) <= 1

\* stop() has been called and start() has not run since.
C32_Stopped == agent.ws = 0 /\ agent.created > 0

C32_Step ==
  C32_Stopped =>
    /\ Len(agent'.timers) <= Len(agent.timers)
    /\ agent'.created = agent.created
    /\ ~agent'.collectionInterval
    /\ op' # "AgentSend"

\* C32: after stop() the agent stays stopped: no step schedules a
\* reconnect, creates a WebSocket, restarts the data collection or sends a
\* message, although the socket that stop() closed emits close.
C32_StaysStopped == [][C32_Step]_vars

\* C33: every analysis result carries the level that the thresholds give
\* for its stored score, the score after rounding to thousandths, on the
\* real-time network path and on the combined multi-model path.
C33_LevelOfStoredScore ==
  probe.fn \in {"analyzeRealNetworkThreat", "combineAnalysisResults"} =>
    probe.out.threatLevel = calculateThreatLevel(probe.out.threatScore)

\* The same on one path only.
C33_OnPath(fn) ==
  probe.fn = fn =>
    probe.out.threatLevel = calculateThreatLevel(probe.out.threatScore)

C33_RealTimePath == C33_OnPath("analyzeRealNetworkThreat")

C33_CombinedPath == C33_OnPath("combineAnalysisResults")

\* The score processRealTimeData computes for network data d; 0 when there
\* is no indicator and the analysis is not run.
C34_Score(d) ==
  IF extractThreatIndicators(d) = <<>> THEN 0
  ELSE analyzeRealNetworkThreat(d, extractThreatIndicators(d), 0).threatScore

\* The network-status update reaches every member of the room "network"
\* and every open raw WebSocket connection.
C34_StatusBroadcast ==
  /\ \A s \in RoomMembers("network") :
       \E m \in Range(sent') : m.to = s /\ m.type = "networkStatusUpdate"
  /\ \A c \in WsIds :
       IsOpen(c) =>
         \E m \in Range(sent') :
           m.to = c /\ m.type = "NETWORK_STATUS_UPDATE" /\ m.ok

C34_Step ==
  /\ \A d \in Feeds, f \in FailingAmong(DualWsIds), st \in Stores :
       processRealTimeData(d, f, st) =>
         /\ C34_Score(d) <= 100 <=>
              extractThreatIndicators(d) \in {<<>>, <<"LOW">>}
         /\ C34_Score(d) <= 100 =>
              /\ recentThreats' = recentThreats
              /\ threatCount' = threatCount
              /\ pendingSaves' = pendingSaves
              /\ \A m \in Range(sent') : m.type \notin EventNotifications
              /\ f = {} => C34_StatusBroadcast
         /\ C34_Score(d) > 100 =>
              /\ Len(recentThreats') = Min(Len(recentThreats) + 1, BufferCap)
              /\ recentThreats'[Len(recentThreats')].id = threatCount + 1
              /\ recentThreats'[Len(recentThreats')].threatScore = C34_Score(d)
              /\ \A i \in 1..(Len(recentThreats') - 1) :
                   recentThreats'[i].id # threatCount + 1
              /\ (st = "memory" /\ f = {}) => C34_StatusBroadcast
  /\ \A f \in FailingAmong(DualWsIds) :
       ((PersistDone(f) \/ PersistFail(f)) /\ f = {}) => C34_StatusBroadcast

\* C34: an ingestion whose score is at most 0.1 (no indicator, or one LOW
\* indicator) leaves the buffer unchanged, persists nothing and sends no
\* threat update, and the network-status update is still broadcast; an
\* ingestion with a higher score adds exactly one event to the buffer.
C34_ThresholdGatesEvent == [][C34_Step]_vars

\* An ingestion below the threshold after an event was buffered, with a
\* consumer on each transport that received the status update only.
C34_Witness ==
  /\ op = "Ingest"
  /\ Len(recentThreats) >= 1
  /\ RoomMembers("network") # {}
  /\ \E c \in WsIds : IsOpen(c)
  /\ \E m \in Sent : m.type = "networkStatusUpdate"
  /\ \E m \in Sent : m.type = "NETWORK_STATUS_UPDATE"
  /\ \A m \in Sent : m.type \notin EventNotifications

RECURSIVE C35_SumCounts(_)
C35_SumCounts(nodes) ==
  IF nodes = <<>> THEN 0
  ELSE Head(nodes).threatCount + C35_SumCounts(Tail(nodes))

C35_NodeIds(topology) == {topology.nodes[i].id : i \in DOMAIN topology.nodes}

\* The node threatCounts of a snapshot sum to the number of events
\* considered.
C35_CountsSumToEvents ==
  probe.fn = "calculateNetworkTopology" =>
    C35_SumCounts(probe.out.nodes) = Min(Len(probe.arg), TopologyLimit)

\* C35: in every topology snapshot the source and the target of every
\* edge appear in the node list, and the node threatCounts sum to the
\* number of events considered.
C35_EdgesJoinNodes ==
  probe.fn = "calculateNetworkTopology" =>
    /\ \A i \in DOMAIN probe.out.connections :
         /\ probe.out.connections[i].source \in C35_NodeIds(probe.out)
         /\ probe.out.connections[i].target \in C35_NodeIds(probe.out)
    /\ C35_SumCounts(probe.out.nodes) = Min(Len(probe.arg), TopologyLimit)

\* The notifications the engine sends.
C36_EngineNotifications ==
  EventNotifications
    \cup {"metricsUpdate", "campaignDetected", "networkStatusUpdate",
          "NETWORK_STATUS_UPDATE"}

C36_Step ==
  /\ \A t \in EngineTimers : engine'.intervals[t] <= 1
  /\ op' = "EngineStartNoOp" => engine' = engine
  /\ engine.stopped =>
       \A m \in Range(sent') : m.type \notin C36_EngineNotifications

\* C36: for any sequence of start() and stop() calls at most one timer of
\* each kind is active, start() while running creates none, and after
\* stop() the engine sends no notification.
C36_OneTimerSet == [][C36_Step]_vars

\* The parts of C36, each on its own.
C36_NoDuplicateTimers == \A t \in EngineTimers : engine.intervals[t] <= 1

C36_StartWhileRunningIsNoOp ==
  [][op' = "EngineStartNoOp" => engine' = engine]_vars

C36_SilentAfterStop ==
  [][engine.stopped =>
       \A m \in Range(sent') : m.type \notin C36_EngineNotifications]_vars

\* The events of the client's threats list.
C37_Ids ==
  {client.state.threats[i].id : i \in DOMAIN client.state.threats}

\* C37: the client's threats list holds each distinct event at most once
\* and totalThreats is the number of distinct events received, whatever
\* the sequence of event-stream ticks and immediate updates.
C37_EachEventOnce ==
  /\ \A i, j \in DOMAIN client.state.threats :
       client.state.threats[i].id = client.state.threats[j].id => i = j
  /\ client.state.totalThreats = Cardinality(C37_Ids)

\* The raw WebSocket connections of the client that are connecting or open.
C38_LiveWs ==
  (IF client.wsReadyState \in {"CONNECTING", "OPEN"} THEN 1 ELSE 0)
    + client.orphans

\* C38: under any interleaving of close events, disconnect and
\* connect_error events and timer firings the client has at most one raw
\* WebSocket connection connecting or open and at most one Socket.io
\* reconnect timer pending.
C38_OneConnectionOneTimer ==
  /\ C38_LiveWs <= 1
  /\ client.reconnectTimers <= 1

\* After a close and a Socket.io failure the timer of scheduleReconnection
\* has made a new WebSocket while the timer of onclose is still pending.
C38_Witness ==
  /\ op = "OnReconnectTimeout"
  /\ client.created >= 2
  /\ client.wsReadyState = "CONNECTING"
  /\ client.wsTimers >= 1

C39_Step ==
  /\ client'.cleaned =>
       /\ client'.reconnectTimers = 0
       /\ client'.wsTimers = 0
  /\ client.cleaned =>
       /\ client'.created = client.created
       /\ client'.socketConnecting => client.socketConnecting

\* C39: after cleanup() no connection is opened on either transport and
\* no reconnect timer is pending, although cleanup() closes the sockets
\* and their close and disconnect handlers run.
C39_CleanupIsFinal == [][C39_Step]_vars

\* The parts of C39 that concern the timer of scheduleReconnection and the
\* Socket.io socket.
C39_SocketIoStaysDown ==
  [][/\ client'.cleaned => client'.reconnectTimers = 0
     /\ client.cleaned => (client'.socketConnecting => client.socketConnecting)
    ]_vars

====
